---- MODULE Spec2Model ----
(***************************************************************************)
(* RxOnly web client: the message window of a channel view.                *)
(*                                                                         *)
(* The model follows rxonly/web/static/js/{rxonly,messages,views}.js:      *)
(* cursor state in app_state, the #messages-list DOM list, the pending     *)
(* tapback map, the localStorage read position, and every fetch of         *)
(* fetch_message_page as a request that is answered by the server when it  *)
(* is issued and whose response is delivered (or fails) at any later time. *)
(* An async function is modelled by one action per synchronous stretch:    *)
(* the stretch up to its await issues a request that carries the function's*)
(* locals, and the delivery of the response runs the continuation.         *)
(*                                                                         *)
(* The desktop layout is modelled (the list scrolls, overflow-y is not     *)
(* "visible"); lengths are in units of one message row.                    *)
(***************************************************************************)
EXTENDS Integers, Sequences, FiniteSets, TLC

(***************************************************************************)
(* Bounds of the model.                                                    *)
(***************************************************************************)
\* entries the collector ever stores in the conversation's log
MaxLog == 4
\* page size of one fetch (fetch_message_page asks for 50)
PageLimit == 2
\* fetches that may be outstanding together
MaxInFlight == 2
\* rows of the list's viewport (clientHeight)
ViewportRows == 2
\* rows of the log at the start of a later visit, and how many of them may
\* have been pruned
BacklogRows == 7
PrunedRows == 2
\* reactions of one emoji that one parent message may have received
BurstPool == 6
\* node searches issued after one page load
MaxSearches == 3
\* stats fetches of the fast poll outstanding together
MaxStatsInFlight == 2
\* node-list polls and page requests outstanding together
MaxNodesInFlight == 2
\* rows of the log when a stored item is read back
StoredRows == 4
\* rows of the channel beside the direct messages
TwoRows == 4
\* activations counted on a saved scroll offset
MaxActivations == 2
\* pages the infinite scroll appends before the list is rebuilt
MaxNodePages == 2
\* fast polls that fail in a row
MaxFailures == 4

(***************************************************************************)
(* Thresholds of handle_messages_scroll, in rows (100 px and 200 px).      *)
(***************************************************************************)
NearTopRows == 1
NearBottomRows == 2

\* render_tapbacks: display cap and per-emoji collapse threshold
max_pills == 10
group_threshold == 5

\* config.max_poll_failures
max_poll_failures == 3

Null == [none |-> TRUE]

\* null in a field that otherwise holds a string (known_local_node_id,
\* known_first_seen, current_channel_index)
NoValue == "null"

Max(a, b) == IF a > b THEN a ELSE b
Min(a, b) == IF a < b THEN a ELSE b

(***************************************************************************)
(* The server's log.  Entry k is the k-th row the collector inserted       *)
(* (id AUTOINCREMENT); rx_time is the receive time in seconds, so it never *)
(* decreases with id and two rows may share it; message_id is the packet   *)
(* id, unique and in no relation to id.  Rows 4, 10, .. are tapbacks on a  *)
(* message three rows back, rows 6, 12, .. tapbacks on the row before, row *)
(* 2 is a text reply.                                                      *)
(*                                                                         *)
(* Rows from BurstParent on are a second conversation: one message and,    *)
(* after it, three pools of BurstPool reactions to it, one pool per emoji. *)
(***************************************************************************)
BurstParent == 1000

\* The direct messages are a conversation of their own (the direct_messages
\* table): one text message, received after every row of the channel.
DmRow == 103
DmStored == {DmRow}

Rx(id) == id - (id \div 3)

Mid(id) ==
    IF id % 3 = 2 THEN 10 + id + 1
    ELSE IF id % 3 = 0 THEN 10 + id - 1
    ELSE 10 + id

ReplyTo(id) ==
    IF id > BurstParent THEN Mid(BurstParent)
    ELSE IF id = BurstParent THEN 0
    ELSE IF id % 6 = 4 THEN Mid(id - 3)
    ELSE IF id % 6 = 0 THEN Mid(id - 1)
    ELSE IF id % 6 = 2 THEN Mid(id - 1)
    ELSE 0

\* text as a sequence of grapheme clusters: "E1", "E2", "E3" pictographic,
\* "a" a letter, " " white space
Pictographic == {"E1", "E2", "E3"}

\* the k-th reaction of pool e (e = 0, 1, 2)
BurstTapback(e, k) == BurstParent + e * BurstPool + k

Text(id) ==
    IF id > BurstParent + 2 * BurstPool THEN <<"E3">>
    ELSE IF id > BurstParent + BurstPool THEN <<"E2", " ">>
    ELSE IF id > BurstParent THEN <<"E1">>
    ELSE IF id = BurstParent THEN <<"a">>
    ELSE IF id % 6 = 4 THEN <<" ", "E1">>
    ELSE IF id % 6 = 0 THEN <<"E2">>
    ELSE IF id % 6 = 2 THEN <<"a", " ", "a">>
    ELSE IF id % 6 = 5 THEN <<"E1">>
    ELSE <<"a">>

RECURSIVE TrimLeft(_)
TrimLeft(s) ==
    IF s = <<>> THEN s
    ELSE IF Head(s) = " " THEN TrimLeft(Tail(s)) ELSE s

RECURSIVE TrimRight(_)
TrimRight(s) ==
    IF s = <<>> THEN s
    ELSE IF s[Len(s)] = " " THEN TrimRight(SubSeq(s, 1, Len(s) - 1)) ELSE s

Trim(s) == TrimRight(TrimLeft(s))

is_emoji_only(text) ==
    LET trimmed == Trim(text) IN
    /\ text # <<>>
    /\ Len(trimmed) # 0
    /\ Len(trimmed) >= 1 /\ Len(trimmed) <= 3
    /\ \A i \in 1..Len(trimmed) : trimmed[i] \in Pictographic

is_tapback(id) == ReplyTo(id) # 0 /\ is_emoji_only(Text(id))

(***************************************************************************)
(* Display order (rx_time, id) and the read order (rx_time, message_id).   *)
(***************************************************************************)
KeyOf(id) == [rx |-> Rx(id), id |-> id]

KeyLess(a, b) == a.rx < b.rx \/ (a.rx = b.rx /\ a.id < b.id)
KeyLeq(a, b) == a = b \/ KeyLess(a, b)

RECURSIVE SortByKey(_)
SortByKey(S) ==
    IF S = {} THEN <<>>
    ELSE LET m == CHOOSE x \in S : \A y \in S : KeyLeq(KeyOf(x), KeyOf(y))
         IN <<m>> \o SortByKey(S \ {m})

FirstN(s, n) == SubSeq(s, 1, Min(n, Len(s)))
LastN(s, n) == SubSeq(s, Max(1, Len(s) - n + 1), Len(s))

SeqSet(s) == {s[i] : i \in 1..Len(s)}

(***************************************************************************)
(* The paged query of the server (external interface of the client).       *)
(* stored: the set of ids the server holds.  q.mode is "newest", "before"  *)
(* or "after"; q.rx the boundary.  Entries come back ascending by          *)
(* (rx_time, id), at most PageLimit of them, next to the boundary.         *)
(***************************************************************************)
ServerPage(stored, q) ==
    LET match == IF q.mode = "before" THEN {i \in stored : Rx(i) < q.rx}
                 ELSE IF q.mode = "after" THEN {i \in stored : Rx(i) > q.rx}
                 ELSE stored
        limit(all) == IF q.mode = "after" THEN FirstN(all, PageLimit)
                      ELSE LastN(all, PageLimit)
        response(page) ==
            [messages |-> page,
             has_more_older |->
                 IF page = <<>> THEN q.mode = "after" /\ stored # {}
                 ELSE \E i \in stored : KeyLess(KeyOf(i), KeyOf(page[1])),
             has_more_newer |->
                 IF page = <<>> THEN q.mode = "before" /\ stored # {}
                 ELSE \E i \in stored : KeyLess(KeyOf(page[Len(page)]), KeyOf(i))]
    IN response(limit(SortByKey(match)))

(***************************************************************************)
(* The list DOM.  An item is one <li data-message-id data-rx-time>: the    *)
(* entry it shows, its message-read class, and the tapbacks recorded in    *)
(* its container's data-tapbacks attribute, in the order they were pushed. *)
(***************************************************************************)
create_message_item(id) == [id |-> id, read |-> FALSE, taps |-> <<>>]

mark_message_read(li) == [li EXCEPT !.read = TRUE]

RECURSIVE InsertByRx(_, _)
InsertByRx(sorted, t) ==
    IF sorted = <<>> THEN <<t>>
    ELSE IF Rx(Head(sorted)) <= Rx(t)
         THEN <<Head(sorted)>> \o InsertByRx(Tail(sorted), t)
         ELSE <<t>> \o sorted

\* tapbacks.sort by rx_time (Array.prototype.sort is stable)
RECURSIVE SortByRx(_)
SortByRx(s) ==
    IF s = <<>> THEN <<>>
    ELSE InsertByRx(SortByRx(SubSeq(s, 1, Len(s) - 1)), s[Len(s)])

\* keys of the groups Map, in insertion order
RECURSIVE EmojiOrder(_, _)
EmojiOrder(s, seen) ==
    IF s = <<>> THEN <<>>
    ELSE LET e == Trim(Text(Head(s))) IN
         IF e \in seen THEN EmojiOrder(Tail(s), seen)
         ELSE <<e>> \o EmojiOrder(Tail(s), seen \cup {e})

GroupOf(s, e) == SelectSeq(s, LAMBDA t : Trim(Text(t)) = e)

create_grouped_tapback(emoji, count) ==
    [grouped |-> TRUE, tapback_id |-> 0, emoji |-> emoji, count |-> count]

create_tapback_pill(t) ==
    [grouped |-> FALSE, tapback_id |-> Mid(t), emoji |-> Trim(Text(t)), count |-> 1]

RECURSIVE BuildPills(_, _)
BuildPills(sorted, emojis) ==
    IF emojis = <<>> THEN <<>>
    ELSE LET g == GroupOf(sorted, Head(emojis))
             these == IF Len(g) > group_threshold
                      THEN <<create_grouped_tapback(Head(emojis), Len(g))>>
                      ELSE [i \in 1..Len(g) |-> create_tapback_pill(g[i])]
         IN these \o BuildPills(sorted, Tail(emojis))

\* render_tapbacks that shows two pills and counts the rest in the indicator
render_tapbacks_two(tapbacks) ==
    LET group(sorted) == BuildPills(sorted, EmojiOrder(sorted, {}))
        show(pills) ==
            [pills |-> IF Len(pills) > 2 THEN SubSeq(pills, 1, 2) ELSE pills,
             overflow |-> IF Len(pills) > 2 THEN Len(pills) - 2 ELSE 0]
    IN show(group(SortByRx(tapbacks)))

\* the children of the tapback container after render_tapbacks
render_tapbacks(tapbacks) ==
    LET group(sorted) == BuildPills(sorted, EmojiOrder(sorted, {}))
        show(pills) ==
            [pills |-> IF Len(pills) > max_pills THEN SubSeq(pills, 1, max_pills) ELSE pills,
             overflow |-> IF Len(pills) > max_pills THEN Len(pills) - max_pills ELSE 0]
    IN show(group(SortByRx(tapbacks)))

\* the data-tapback-id values found in an item's container
ExistingPillIds(li) ==
    LET ids(pills) == {pills[i].tapback_id : i \in {j \in 1..Len(pills) : ~pills[j].grouped}}
    IN ids(render_tapbacks(li.taps).pills)

\* document.querySelector('#messages-list li[data-message-id=..]'): index of
\* the first match in the live list, 0 when there is none
FindLi(doc, message_id) ==
    LET hits == {i \in 1..Len(doc) : Mid(doc[i].id) = message_id} IN
    IF hits = {} THEN 0 ELSE CHOOSE i \in hits : \A j \in hits : i <= j

attach_tapback_to_parent(doc, tapback) ==
    LET attach(i) ==
            IF i = 0 THEN [ok |-> FALSE, doc |-> doc]
            ELSE IF Mid(tapback) \in ExistingPillIds(doc[i]) THEN [ok |-> TRUE, doc |-> doc]
            ELSE [ok |-> TRUE, doc |-> [doc EXCEPT ![i].taps = Append(@, tapback)]]
    IN attach(FindLi(doc, ReplyTo(tapback)))

\* pending_tapbacks: a map from the parent's message_id to the tapbacks queued
store_pending_tapback(pend, tapback) ==
    LET parent_id == ReplyTo(tapback) IN
    IF parent_id \in DOMAIN pend
    THEN [pend EXCEPT ![parent_id] = Append(@, tapback)]
    ELSE [p \in DOMAIN pend \cup {parent_id} |->
            IF p = parent_id THEN <<tapback>> ELSE pend[p]]

RECURSIVE AttachSeq(_, _)
AttachSeq(doc, tapbacks) ==
    IF tapbacks = <<>> THEN doc
    ELSE AttachSeq(attach_tapback_to_parent(doc, Head(tapbacks)).doc, Tail(tapbacks))

RECURSIVE FlushParents(_, _, _)
FlushParents(doc, pend, parents) ==
    IF parents = {} THEN doc
    ELSE LET p == CHOOSE x \in parents : TRUE IN
         FlushParents(AttachSeq(doc, pend[p]), pend, parents \ {p})

\* flush_pending_tapbacks that attaches and keeps the keys it has resolved
flush_pending_tapbacks_keeps_keys(doc, pend) ==
    LET resolved_parents == {p \in DOMAIN pend : FindLi(doc, p) # 0} IN
    [doc |-> FlushParents(doc, pend, resolved_parents), pend |-> pend]

\* flush_pending_tapbacks that leaves the queue as it is
flush_pending_tapbacks_skipped(doc, pend) == [doc |-> doc, pend |-> pend]

flush_pending_tapbacks(doc, pend) ==
    LET resolved_parents == {p \in DOMAIN pend : FindLi(doc, p) # 0} IN
    [doc |-> FlushParents(doc, pend, resolved_parents),
     pend |-> [p \in DOMAIN pend \ resolved_parents |-> pend[p]]]

\* the loop "attach, else store" of append_/prepend_messages_to_list
RECURSIVE AttachOrStore(_, _, _)
AttachOrStore(doc, pend, tapbacks) ==
    LET rest(r) ==
            AttachOrStore(r.doc,
                          IF r.ok THEN pend ELSE store_pending_tapback(pend, Head(tapbacks)),
                          Tail(tapbacks))
    IN IF tapbacks = <<>> THEN [doc |-> doc, pend |-> pend]
       ELSE rest(attach_tapback_to_parent(doc, Head(tapbacks)))

NormalOf(messages) == SelectSeq(messages, LAMBDA m : ~is_tapback(m))
TapbacksOf(messages) == SelectSeq(messages, LAMBDA m : is_tapback(m))

(***************************************************************************)
(* append_messages_to_list(messages_ul, messages).  ul is the list that is *)
(* appended to, doc the list that is in the document (querySelector looks  *)
(* there); in_doc says that they are the same element.  The result gives   *)
(* both lists and the pending map.                                         *)
(***************************************************************************)
append_messages_to_list(ul, in_doc, doc, pend, messages) ==
    LET items(normal) == [i \in 1..Len(normal) |-> create_message_item(normal[i])]
        flush(a) == flush_pending_tapbacks(a.doc, a.pend)
        result(ul1, f) == [ul |-> IF in_doc THEN f.doc ELSE ul1, doc |-> f.doc, pend |-> f.pend]
        attach(ul1) ==
            result(ul1, flush(AttachOrStore(IF in_doc THEN ul1 ELSE doc, pend,
                                            TapbacksOf(messages))))
    IN attach(ul \o items(NormalOf(messages)))

\* layout: an item is one row, two with a tapback container that shows pills
Height(li) == IF li.taps = <<>> THEN 1 ELSE 2

RECURSIVE ContentHeight(_)
ContentHeight(ul) ==
    IF ul = <<>> THEN 0 ELSE Height(Head(ul)) + ContentHeight(Tail(ul))

scrollHeight(ul) == Max(ContentHeight(ul), ViewportRows)
MaxScroll(ul) == scrollHeight(ul) - ViewportRows
\* the browser keeps scrollTop inside the scrollable range
Clamp(ul, top) == Max(0, Min(top, MaxScroll(ul)))

\* item_rect.top - container_rect.top of item i
ItemTop(ul, top, i) == ContentHeight(SubSeq(ul, 1, i - 1)) - top

(***************************************************************************)
(* prepend_messages_to_list(messages_ul, messages): the prepended items    *)
(* are marked read, and scrollTop moves by the growth of scrollHeight.     *)
(***************************************************************************)
\* prepend_messages_to_list leaving the prepended items as created
prepend_messages_to_list_unmarked(ul, in_doc, doc, pend, messages, top) ==
    LET old_scroll_height == scrollHeight(ul)
        items(normal) == [i \in 1..Len(normal) |-> create_message_item(normal[i])]
        flush(a) == flush_pending_tapbacks(a.doc, a.pend)
        restore(ul2, f) ==
            [ul |-> ul2, doc |-> f.doc, pend |-> f.pend,
             top |-> IF in_doc
                     THEN Clamp(ul2, top + (scrollHeight(ul2) - old_scroll_height))
                     ELSE top]
        result(ul1, f) == restore(IF in_doc THEN f.doc ELSE ul1, f)
        attach(ul1) ==
            result(ul1, flush(AttachOrStore(IF in_doc THEN ul1 ELSE doc, pend,
                                            TapbacksOf(messages))))
    IN attach(items(NormalOf(messages)) \o ul)

prepend_messages_to_list(ul, in_doc, doc, pend, messages, top) ==
    LET old_scroll_height == scrollHeight(ul)
        items(normal) ==
            [i \in 1..Len(normal) |-> mark_message_read(create_message_item(normal[i]))]
        flush(a) == flush_pending_tapbacks(a.doc, a.pend)
        restore(ul2, f) ==
            [ul |-> ul2, doc |-> f.doc, pend |-> f.pend,
             top |-> IF in_doc
                     THEN Clamp(ul2, top + (scrollHeight(ul2) - old_scroll_height))
                     ELSE top]
        result(ul1, f) == restore(IF in_doc THEN f.doc ELSE ul1, f)
        attach(ul1) ==
            result(ul1, flush(AttachOrStore(IF in_doc THEN ul1 ELSE doc, pend,
                                            TapbacksOf(messages))))
    IN attach(items(NormalOf(messages)) \o ul)

(***************************************************************************)
(* localStorage read tracking.  A stored record is                         *)
(* [message_id, rx_time]; NoPos stands for no (usable) record.             *)
(***************************************************************************)
NoPos == Null

\* number of leading items whose top edge is above the bottom of the viewport
RECURSIVE VisiblePrefix(_, _, _)
VisiblePrefix(ul, top, i) ==
    IF i > Len(ul) THEN Len(ul)
    ELSE IF ItemTop(ul, top, i) < ViewportRows THEN VisiblePrefix(ul, top, i + 1)
    ELSE i - 1

\* update_read_position storing the last visible item whatever is stored
update_read_position_always(ul, top, stored) ==
    LET save(msg_id, rx_time) ==
            IF msg_id # 0 /\ rx_time # 0
            THEN [message_id |-> msg_id, rx_time |-> rx_time]
            ELSE stored
        update(k) ==
            [ul |-> [i \in 1..Len(ul) |-> IF i <= k THEN mark_message_read(ul[i]) ELSE ul[i]],
             stored |-> IF k = 0 THEN stored ELSE save(Mid(ul[k].id), Rx(ul[k].id))]
    IN update(VisiblePrefix(ul, top, 1))

\* update_read_position: the list with its read marks, and the stored record
update_read_position(ul, top, stored) ==
    LET newer(msg_id, rx_time) ==
            \/ stored = NoPos
            \/ rx_time > stored.rx_time
            \/ (rx_time = stored.rx_time /\ msg_id > stored.message_id)
        save(msg_id, rx_time) ==
            IF msg_id # 0 /\ rx_time # 0 /\ newer(msg_id, rx_time)
            THEN [message_id |-> msg_id, rx_time |-> rx_time]
            ELSE stored
        update(k) ==
            [ul |-> [i \in 1..Len(ul) |-> IF i <= k THEN mark_message_read(ul[i]) ELSE ul[i]],
             stored |-> IF k = 0 THEN stored ELSE save(Mid(ul[k].id), Rx(ul[k].id))]
    IN update(VisiblePrefix(ul, top, 1))

\* mark_read_up_to without the tie-break on message_id
mark_read_up_to_strict(ul, last_read) ==
    IF last_read = NoPos THEN ul
    ELSE [i \in 1..Len(ul) |->
            IF Rx(ul[i].id) < last_read.rx_time THEN mark_message_read(ul[i]) ELSE ul[i]]

mark_read_up_to(ul, last_read) ==
    IF last_read = NoPos THEN ul
    ELSE [i \in 1..Len(ul) |->
            IF \/ Rx(ul[i].id) < last_read.rx_time
               \/ (Rx(ul[i].id) = last_read.rx_time /\ Mid(ul[i].id) <= last_read.message_id)
            THEN mark_message_read(ul[i]) ELSE ul[i]]

MarkAll(ul) == [i \in 1..Len(ul) |-> mark_message_read(ul[i])]

(***************************************************************************)
(* State.                                                                  *)
(***************************************************************************)
VARIABLES
    log_len,                   \* rows the collector has inserted so far
    pruned,                    \* rows 1..pruned were deleted upstream
    current_view,              \* app_state.current_view
    messages_is_dm,
    messages_has_more_older,
    messages_has_more_newer,
    messages_is_loading,
    messages_oldest,           \* messages_oldest_rx_time / messages_oldest_id
    messages_newest,           \* messages_newest_rx_time / messages_newest_id
    messages_scroll_paused,
    saved_messages_scroll_top,
    pending_tapbacks,
    stored_item,               \* the localStorage item under the key of the channel
    last_read_store,           \* that item as get_last_read returns it
    last_read_dm,              \* the localStorage record of the direct messages
    main_content,              \* what #main-content shows
    messages_list,             \* items of #messages-list in the document
    jump_hidden,               \* hidden attribute of #jump-to-newest
    scrollTop,                 \* messages_list.scrollTop
    inflight,                  \* fetches issued, response not yet delivered
    last_event,                \* the step taken last (history)
    nodes_search_request_id,
    nodes_search_query,
    nodes_list,                \* the search whose result #nodes-list shows
    search_inflight,           \* searches issued and not yet finished
    nodes_inflight,            \* node-list polls and page requests not yet settled
    is_loading_more_nodes,
    nodes_appended,            \* pages appended to #nodes-list since it was rebuilt
    poll_failure_count,
    connection_error,          \* #connection-error is in the document
    known_local_node_id,
    known_first_seen,
    local_node,                \* the local node as the server reports it
    stats_inflight             \* stats fetches of run_fast_poll not yet settled

conv_vars == <<log_len, pruned, current_view, messages_is_dm,
               messages_has_more_older,
               messages_has_more_newer, messages_is_loading, messages_oldest,
               messages_newest, messages_scroll_paused, saved_messages_scroll_top,
               pending_tapbacks, stored_item, last_read_store, last_read_dm, main_content,
               messages_list, jump_hidden, scrollTop, inflight>>

msg_vars == <<conv_vars, last_event>>

\* the node list beside the search
nodes_vars == <<nodes_inflight, is_loading_more_nodes, nodes_appended>>

\* the state of the page outside the conversation view
shell_vars == <<nodes_search_request_id, nodes_search_query, nodes_list,
                search_inflight, poll_failure_count, connection_error,
                known_local_node_id, known_first_seen, local_node, stats_inflight,
                nodes_vars>>

vars == <<msg_vars, shell_vars>>

Stored == {i \in 1..log_len : i > pruned}

Cursors ==
    [has_more_older |-> messages_has_more_older,
     has_more_newer |-> messages_has_more_newer,
     oldest |-> messages_oldest,
     newest |-> messages_newest]

(***************************************************************************)
(* The item under the key of the read position, as localStorage returns    *)
(* it: getItem throws, returns null, or returns a string, which is empty,  *)
(* not JSON, or the text of a JSON value.  A JSON value has its type, its  *)
(* truthiness and, read as properties, message_id and rx_time.             *)
(***************************************************************************)
Undefined == [t |-> "undefined", n |-> 0]
Number(n) == [t |-> "number", n |-> n]
String == [t |-> "string", n |-> 0]
JsonNull == [t |-> "null", n |-> 0]

Json(type, truthy, message_id, rx_time) ==
    [type |-> type, truthy |-> truthy, message_id |-> message_id, rx_time |-> rx_time]

Primitive(type, truthy) == Json(type, truthy, Undefined, Undefined)

Item(raw, value) == [raw |-> raw, value |-> value]

NoItem(raw) == Item(raw, Primitive("null", FALSE))

\* JSON.stringify({ message_id: ..., rx_time: ... }) of set_last_read
JSON_stringify(pos) ==
    IF pos = NoPos THEN NoItem("missing")
    ELSE Item("json", Json("object", TRUE, Number(pos.message_id), Number(pos.rx_time)))

StoredItems ==
    {NoItem("unavailable"), NoItem("missing"), NoItem("empty"), NoItem("unparsable")}
    \cup {Item("json", v) : v \in
            {Primitive("null", FALSE), Primitive("number", FALSE),
             Primitive("number", TRUE), Primitive("string", TRUE),
             Primitive("boolean", TRUE), Primitive("array", TRUE)}}
    \cup {Item("json", Json("object", TRUE, m, r)) :
            m \in {Undefined, String, JsonNull, Number(Mid(1))},
            r \in {Undefined, String, Number(Rx(1))}}

\* get_last_read accepting a record whose message_id is a number
get_last_read_id_only(item) ==
    IF item.raw = "unavailable" THEN NoPos
    ELSE IF item.raw \in {"missing", "empty"} THEN NoPos
    ELSE IF item.raw = "unparsable" THEN NoPos
    ELSE LET parsed == item.value IN
         IF parsed.truthy /\ parsed.message_id.t = "number"
         THEN [message_id |-> parsed.message_id.n, rx_time |-> parsed.rx_time.n]
         ELSE NoPos

\* get_last_read: getItem throws; !raw; JSON.parse throws; the test of parsed
get_last_read(item) ==
    IF item.raw = "unavailable" THEN NoPos
    ELSE IF item.raw \in {"missing", "empty"} THEN NoPos
    ELSE IF item.raw = "unparsable" THEN NoPos
    ELSE LET parsed == item.value IN
         IF parsed.truthy /\ parsed.message_id.t = "number" /\ parsed.rx_time.t = "number"
         THEN [message_id |-> parsed.message_id.n, rx_time |-> parsed.rx_time.n]
         ELSE NoPos

\* the one channel of the sidebar
ChannelIndex == "0"

\* the rows /messages and /direct-messages select from.  There is one
\* channel, so /messages without a channel_index selects the same rows.
LogOf(is_dm) == IF is_dm THEN DmStored ELSE Stored

\* fetch_message_page(options): the request with the function's locals; the
\* server reads its log when the request is issued
FetchFor(is_dm, channel_index, kind, q, in_doc, last_read, context_data) ==
    [kind |-> kind, q |-> q, in_doc |-> in_doc, last_read |-> last_read,
     context_data |-> context_data, is_dm |-> is_dm, channel_index |-> channel_index,
     data |-> ServerPage(LogOf(is_dm), q)]

\* app_state.current_channel_index: null in the direct messages.  There is
\* one channel, and its index is taken as the current one in every other
\* view: after show_home_view the program holds null, and the scroll of a
\* list that a late response rendered there writes under
\* "rxonly_last_read_ch_null", a key nothing else reads; here that write
\* goes to the record of the channel.
current_channel_index ==
    IF current_view = "direct_messages" THEN NoValue ELSE ChannelIndex

\* the request of load_older_messages, load_newer_messages and
\* handle_jump_to_newest: is_dm and channel_index are read from app_state
Fetch(kind, q, in_doc, last_read, context_data) ==
    FetchFor(messages_is_dm,
             current_channel_index,
             kind, q, in_doc, last_read, context_data)

build_last_read_key(is_dm, channel_index) ==
    IF is_dm THEN "rxonly_last_read_dm"
    ELSE IF channel_index = NoValue THEN "rxonly_last_read_ch_null"
    ELSE "rxonly_last_read_ch_0"

ChannelKey == build_last_read_key(FALSE, ChannelIndex)
DmKey == build_last_read_key(TRUE, NoValue)

\* the key update_read_position reads and writes
CurrentKey == build_last_read_key(messages_is_dm, current_channel_index)

\* the record under a key, parsed
LastReadAt(key) ==
    IF key = ChannelKey THEN last_read_store
    ELSE IF key = DmKey THEN last_read_dm
    ELSE NoPos

\* localStorage after the record under a key has become pos: set_last_read
\* has written it unless it is the record get_last_read returned
SetItem(key, pos) ==
    /\ last_read_store' = IF key = ChannelKey THEN pos ELSE last_read_store
    /\ stored_item' = IF key = ChannelKey /\ pos # last_read_store
                      THEN JSON_stringify(pos) ELSE stored_item
    /\ last_read_dm' = IF key = DmKey THEN pos ELSE last_read_dm

Newest == [mode |-> "newest", rx |-> 0]
Before(rx) == [mode |-> "before", rx |-> rx]
After(rx) == [mode |-> "after", rx |-> rx]

Remove(s, i) == SubSeq(s, 1, i - 1) \o SubSeq(s, i + 1, Len(s))

\* the list element that handlers still hold is no longer in the document
Detached(reqs) == [i \in 1..Len(reqs) |-> [reqs[i] EXCEPT !.in_doc = FALSE]]

Event(op, req) == op

update_message_cursors(cur, data) ==
    LET messages == data.messages
        first == KeyOf(messages[1])
        last == KeyOf(messages[Len(messages)])
    IN [has_more_older |-> data.has_more_older,
        has_more_newer |-> data.has_more_newer,
        oldest |-> IF messages = <<>> THEN cur.oldest
                   ELSE IF \/ cur.oldest = Null
                           \/ first.rx < cur.oldest.rx
                           \/ (first.rx = cur.oldest.rx /\ first.id < cur.oldest.id)
                        THEN first ELSE cur.oldest,
        newest |-> IF messages = <<>> THEN cur.newest
                   ELSE IF \/ cur.newest = Null
                           \/ last.rx > cur.newest.rx
                           \/ (last.rx = cur.newest.rx /\ last.id > cur.newest.id)
                        THEN last ELSE cur.newest]

reset_message_state ==
    [has_more_older |-> FALSE, has_more_newer |-> FALSE, oldest |-> Null, newest |-> Null]

\* app_state's cursor fields after a handler has left them as c
SetCursors(c) ==
    /\ messages_has_more_older' = c.has_more_older
    /\ messages_has_more_newer' = c.has_more_newer
    /\ messages_oldest' = c.oldest
    /\ messages_newest' = c.newest

set_last_read(id) == [message_id |-> Mid(id), rx_time |-> Rx(id)]

\* render_messages_dom: a new list is filled while the old document is still
\* in place, then replaces #main-content, then pending tapbacks are flushed
render_messages_dom(doc, pend, messages) ==
    LET flush(a) == flush_pending_tapbacks(a.ul, a.pend)
    IN flush(append_messages_to_list(<<>>, FALSE, doc, pend, messages))

\* A saved scroll offset carries, beside app_state.saved_messages_scroll_top,
\* the number of render_messages_view calls made since it was saved (counted
\* up to MaxActivations); the program does not keep that number.
Activated(saved) ==
    IF saved = Null THEN Null
    ELSE [saved EXCEPT !.activations = IF @ < MaxActivations THEN @ + 1 ELSE @]

\* app_state.saved_messages_scroll_top, _channel_index and _is_dm as
\* save_read_position_before_leave sets them
SavedScroll ==
    [scroll_top |-> scrollTop, activations |-> 0,
     channel_index |-> current_channel_index,
     is_dm |-> (current_view = "direct_messages")]

consume_saved_scroll_position(saved, is_dm, channel_index) ==
    IF saved = Null THEN Null
    ELSE IF saved.is_dm # is_dm THEN Null
    ELSE IF ~is_dm /\ saved.channel_index # channel_index THEN Null
    ELSE saved

\* save_read_position_before_leave keeping the scroll offset only
save_read_position_before_leave_offset_only ==
    IF current_view \notin {"channel", "direct_messages"} \/ main_content # "list"
    THEN [stored |-> LastReadAt(CurrentKey), saved |-> saved_messages_scroll_top]
    ELSE [stored |-> LastReadAt(CurrentKey),
          saved |-> IF scrollTop > 0 THEN SavedScroll ELSE saved_messages_scroll_top]

\* save_read_position_before_leave
\* save_read_position_before_leave: stored is the record under CurrentKey
\* afterwards
save_read_position_before_leave ==
    IF current_view \notin {"channel", "direct_messages"} \/ main_content # "list"
    THEN [stored |-> LastReadAt(CurrentKey), saved |-> saved_messages_scroll_top]
    ELSE [stored |-> update_read_position(messages_list, scrollTop,
                                          LastReadAt(CurrentKey)).stored,
          saved |-> IF scrollTop > 0 THEN SavedScroll ELSE saved_messages_scroll_top]

(***************************************************************************)
(* The environment: the collector stores a row.                            *)
(***************************************************************************)
NewEntry ==
    /\ log_len < MaxLog
    /\ log_len' = log_len + 1
    /\ last_event' = Event("step", Null)
    /\ UNCHANGED <<pruned, current_view, messages_is_dm, messages_has_more_older,
          messages_has_more_newer, messages_is_loading, messages_oldest,
          messages_newest, messages_scroll_paused, saved_messages_scroll_top,
          pending_tapbacks, stored_item, last_read_store, last_read_dm, main_content, messages_list,
          jump_hidden, scrollTop, inflight>>

(***************************************************************************)
(* show_channel_messages, up to the first await of render_messages_view.   *)
(* The route changes only when the hash changes, so the view that is left  *)
(* is another one.                                                         *)
(***************************************************************************)
show_messages(is_dm, channel_index, view) ==
    /\ Len(inflight) < MaxInFlight
    /\ LET key == build_last_read_key(is_dm, channel_index)
           render_messages_view(last_read) ==
               IF last_read # NoPos
               THEN FetchFor(is_dm, channel_index, "context",
                             Before(last_read.rx_time + 1), FALSE, last_read, Null)
               ELSE FetchFor(is_dm, channel_index, "fresh", Newest, FALSE, NoPos, Null)
           enter(left) ==
               /\ SetItem(CurrentKey, left.stored)
               /\ saved_messages_scroll_top' = Activated(left.saved)
               /\ inflight' = Append(Detached(inflight),
                     render_messages_view(IF key = CurrentKey THEN left.stored
                                          ELSE LastReadAt(key)))
       IN enter(save_read_position_before_leave)
    /\ current_view' = view
    /\ messages_is_dm' = is_dm
    /\ SetCursors(reset_message_state)
    /\ messages_is_loading' = FALSE
    /\ pending_tapbacks' = <<>>
    /\ main_content' = "loading"
    /\ messages_list' = <<>>
    /\ jump_hidden' = TRUE
    /\ scrollTop' = 0
    /\ last_event' = Event(IF is_dm THEN "show_direct_messages" ELSE "show_channel", Null)
    /\ UNCHANGED <<log_len, pruned, messages_scroll_paused>>

ShowChannel ==
    /\ current_view # "channel"
    /\ show_messages(FALSE, ChannelIndex, "channel")

\* show_direct_messages, up to the first await of render_messages_view
ShowDirectMessages ==
    /\ current_view # "direct_messages"
    /\ show_messages(TRUE, NoValue, "direct_messages")

(***************************************************************************)
(* show_home_view.  The dashboard that is fetched and rendered afterwards  *)
(* is not tracked: "page" stands for a #main-content without message list. *)
(***************************************************************************)
ShowHome ==
    /\ current_view # "home"
    /\ SetItem(CurrentKey, save_read_position_before_leave.stored)
    /\ saved_messages_scroll_top' = Null
    /\ current_view' = "home"
    /\ main_content' = "page"
    /\ messages_list' = <<>>
    /\ jump_hidden' = TRUE
    /\ scrollTop' = 0
    /\ inflight' = Detached(inflight)
    /\ last_event' = Event(IF LastReadAt(CurrentKey) # save_read_position_before_leave.stored
                            THEN "leave_commit" ELSE "show_home", Null)
    /\ UNCHANGED <<log_len, pruned, messages_is_dm, messages_has_more_older, messages_has_more_newer,
          messages_is_loading, messages_oldest, messages_newest,
          messages_scroll_paused, pending_tapbacks>>

(***************************************************************************)
(* show_node_detail / show_message_detail from the channel view, up to the *)
(* await: the saved scroll position is kept for the return.                *)
(***************************************************************************)
ShowDetail ==
    /\ current_view = "channel"
    /\ LET leave(left) ==
               /\ SetItem(CurrentKey, left.stored)
               /\ saved_messages_scroll_top' = left.saved
       IN leave(save_read_position_before_leave)
    /\ current_view' = "detail"
    /\ main_content' = "page"
    /\ messages_list' = <<>>
    /\ jump_hidden' = TRUE
    /\ scrollTop' = 0
    /\ inflight' = Detached(inflight)
    /\ last_event' = Event(IF LastReadAt(CurrentKey) # save_read_position_before_leave.stored
                            THEN "leave_commit" ELSE "show_detail", Null)
    /\ UNCHANGED <<log_len, pruned, messages_is_dm,
          messages_has_more_older, messages_has_more_newer,
          messages_is_loading, messages_oldest, messages_newest,
          messages_scroll_paused, pending_tapbacks>>

(***************************************************************************)
(* render_messages_view after the context fetch: fall back to the fresh    *)
(* load when the page is empty, else fetch the page after the position.    *)
(***************************************************************************)
DeliverContext(i) ==
    LET r == inflight[i] IN
    /\ r.kind = "context"
    /\ inflight' = Append(Remove(inflight, i),
          IF r.data.messages = <<>>
          THEN FetchFor(r.is_dm, r.channel_index, "fresh", Newest, FALSE, r.last_read, Null)
          ELSE FetchFor(r.is_dm, r.channel_index, "resume_newer",
                        After(r.last_read.rx_time), FALSE, r.last_read, r.data))
    /\ last_event' = Event("context", r)
    /\ UNCHANGED <<log_len, pruned, current_view, messages_is_dm, messages_has_more_older,
          messages_has_more_newer, messages_is_loading, messages_oldest,
          messages_newest, messages_scroll_paused, saved_messages_scroll_top,
          pending_tapbacks, stored_item, last_read_store, last_read_dm, main_content, messages_list,
          jump_hidden, scrollTop>>

\* scroll_to_last_read: the item of the stored position goes to the top
scroll_to_last_read(ul, message_id) ==
    LET i == FindLi(ul, message_id) IN
    IF i = 0 THEN 0 ELSE Clamp(ul, ItemTop(ul, 0, i))

(***************************************************************************)
(* render_messages_view after the second fetch of the resume.              *)
(***************************************************************************)
ResumeCursors(cur, context_data, newer_data) ==
    [update_message_cursors(update_message_cursors(cur, context_data), newer_data)
        EXCEPT !.has_more_newer = newer_data.has_more_newer,
               !.has_more_older = context_data.has_more_older]

ResumeList(doc, pend, context_data, newer_data, last_read) ==
    LET mark(f) == [doc |-> mark_read_up_to(f.doc, last_read), pend |-> f.pend]
    IN mark(render_messages_dom(doc, pend, context_data.messages \o newer_data.messages))

DeliverResumeNewer(i) ==
    LET r == inflight[i]
        render(c, f) ==
            /\ SetCursors(c)
            /\ messages_list' = f.doc
            /\ pending_tapbacks' = f.pend
            /\ jump_hidden' = ~c.has_more_newer
            /\ scrollTop' =
                  IF consume_saved_scroll_position(saved_messages_scroll_top, r.is_dm,
                                                   r.channel_index) # Null
                  THEN Clamp(f.doc, saved_messages_scroll_top.scroll_top)
                  ELSE scroll_to_last_read(f.doc, r.last_read.message_id)
    IN
    /\ r.kind = "resume_newer"
    /\ inflight' = Detached(Remove(inflight, i))
    /\ render(ResumeCursors(Cursors, r.context_data, r.data),
              ResumeList(messages_list, pending_tapbacks, r.context_data, r.data, r.last_read))
    /\ main_content' = "list"
    /\ saved_messages_scroll_top' = Null
    /\ last_event' = Event("resume", r)
    /\ UNCHANGED <<log_len, pruned, current_view, messages_is_dm, messages_is_loading,
          messages_scroll_paused, stored_item, last_read_store, last_read_dm>>

(***************************************************************************)
(* render_messages_fresh after its fetch.                                  *)
(***************************************************************************)
FreshList(doc, pend, messages) ==
    LET mark(f) == [doc |-> MarkAll(f.doc), pend |-> f.pend]
    IN mark(render_messages_dom(doc, pend, messages))

\* the fresh load persisting the first entry of the page
FreshLastRead_first(messages) == set_last_read(messages[1])

FreshLastRead(messages) == set_last_read(messages[Len(messages)])

DeliverFresh(i) ==
    LET r == inflight[i]
        messages == r.data.messages
        render(c, f) ==
            /\ SetCursors(c)
            /\ messages_list' = f.doc
            /\ pending_tapbacks' = f.pend
            /\ jump_hidden' = ~c.has_more_newer
            /\ scrollTop' = Clamp(f.doc, scrollHeight(f.doc))
    IN
    /\ r.kind = "fresh"
    /\ inflight' = Detached(Remove(inflight, i))
    /\ IF messages = <<>>
       THEN /\ main_content' = "empty"
            /\ messages_list' = <<>>
            /\ jump_hidden' = TRUE
            /\ scrollTop' = 0
            /\ UNCHANGED <<messages_has_more_older, messages_has_more_newer,
                  messages_oldest, messages_newest, pending_tapbacks, stored_item, last_read_store, last_read_dm>>
       ELSE /\ render(update_message_cursors(Cursors, r.data),
                      FreshList(messages_list, pending_tapbacks, messages))
            /\ main_content' = "list"
            /\ SetItem(build_last_read_key(r.is_dm, r.channel_index),
                       FreshLastRead(messages))
    /\ last_event' = Event(IF r.last_read = NoPos THEN "fresh" ELSE "fallback", r)
    /\ UNCHANGED <<log_len, pruned, current_view, messages_is_dm, messages_is_loading,
          messages_scroll_paused, saved_messages_scroll_top>>

\* a fetch of render_messages_view is rejected: the error text is shown
FailView(i) ==
    /\ inflight[i].kind \in {"context", "resume_newer", "fresh"}
    /\ inflight' = Detached(Remove(inflight, i))
    /\ main_content' = "error"
    /\ messages_list' = <<>>
    /\ jump_hidden' = TRUE
    /\ scrollTop' = 0
    /\ last_event' = Event("view_failed", inflight[i])
    /\ UNCHANGED <<log_len, pruned, current_view, messages_is_dm, messages_has_more_older,
          messages_has_more_newer, messages_is_loading, messages_oldest,
          messages_newest, messages_scroll_paused, saved_messages_scroll_top,
          pending_tapbacks, stored_item, last_read_store, last_read_dm>>

(***************************************************************************)
(* The start of load_older_messages / load_newer_messages: whether the     *)
(* call goes on to fetch.                                                  *)
(***************************************************************************)
\* load_older_messages that does not look at messages_is_loading
load_older_starts_unguarded(loading, cur) ==
    cur.has_more_older /\ cur.oldest # Null

load_older_starts(loading, cur) ==
    ~loading /\ cur.has_more_older /\ cur.oldest # Null

\* load_newer_messages that does not look at messages_has_more_newer
load_newer_starts_any(loading, cur) ==
    ~loading /\ cur.newest # Null

load_newer_starts(loading, cur) ==
    ~loading /\ cur.has_more_newer /\ cur.newest # Null

(***************************************************************************)
(* handle_messages_scroll: a scroll event of the list at position top.     *)
(* The read position is updated, and near the top or the bottom the next   *)
(* page is asked for (load_older_messages, then load_newer_messages).      *)
(***************************************************************************)
handle_messages_scroll(top) ==
    LET near_top == top < NearTopRows
        near_bottom == (ContentHeight(messages_list) - top) - ViewportRows < NearBottomRows
        read(u) ==
            /\ messages_list' = u.ul
            /\ SetItem(CurrentKey, u.stored)
        load(older, newer) ==
            /\ (older \/ newer) => Len(inflight) < MaxInFlight
            /\ messages_is_loading' = (messages_is_loading \/ older \/ newer)
            /\ inflight' =
                  IF older
                  THEN Append(inflight,
                          Fetch("older", Before(messages_oldest.rx), TRUE, NoPos, Null))
                  ELSE IF newer
                  THEN Append(inflight,
                          Fetch("newer", After(messages_newest.rx), TRUE, NoPos, Null))
                  ELSE inflight
        load_newer(older) ==
            load(older, near_bottom /\ load_newer_starts(messages_is_loading \/ older, Cursors))
    IN
    /\ main_content = "list"
    /\ messages_list # <<>>
    /\ top \in 0..MaxScroll(messages_list)
    /\ scrollTop' = top
    /\ read(update_read_position(messages_list, top, LastReadAt(CurrentKey)))
    /\ load_newer(near_top /\ load_older_starts(messages_is_loading, Cursors))
    /\ last_event' = Event("scroll", Null)
    /\ UNCHANGED <<log_len, pruned, current_view, messages_is_dm, messages_has_more_older,
          messages_has_more_newer, messages_oldest, messages_newest,
          saved_messages_scroll_top, pending_tapbacks, main_content, jump_hidden>>

\* the handler arms the debounce timer: polling pauses until it expires
Scroll(top) ==
    /\ handle_messages_scroll(top)
    /\ messages_scroll_paused' = TRUE

\* the timer armed by the scroll handler expires
ScrollSettle ==
    /\ messages_scroll_paused
    /\ messages_scroll_paused' = FALSE
    /\ last_event' = Event("step", Null)
    /\ UNCHANGED <<log_len, pruned, current_view, messages_is_dm, messages_has_more_older,
          messages_has_more_newer, messages_is_loading, messages_oldest,
          messages_newest, saved_messages_scroll_top, pending_tapbacks,
          stored_item, last_read_store, last_read_dm, main_content, messages_list, jump_hidden, scrollTop,
          inflight>>

\* a scroll event together with the expiry of its timer (Scroll, then
\* ScrollSettle): the pause only delays the poll
ScrollSettled(top) ==
    /\ handle_messages_scroll(top)
    /\ messages_scroll_paused' = FALSE

(***************************************************************************)
(* load_older_messages after its fetch.                                    *)
(***************************************************************************)
\* load_older_messages taking both flags from its response
OlderCursors_both_flags(cur, data) ==
    IF data.messages # <<>>
    THEN [cur EXCEPT !.has_more_older = data.has_more_older,
                     !.has_more_newer = data.has_more_newer,
                     !.oldest = KeyOf(data.messages[1])]
    ELSE [cur EXCEPT !.has_more_older = FALSE]

OlderCursors(cur, data) ==
    IF data.messages # <<>>
    THEN [cur EXCEPT !.has_more_older = data.has_more_older,
                     !.oldest = KeyOf(data.messages[1])]
    ELSE [cur EXCEPT !.has_more_older = FALSE]

DeliverOlder(i) ==
    LET r == inflight[i]
        prepend(f) ==
            /\ messages_list' = f.doc
            /\ pending_tapbacks' = f.pend
            /\ scrollTop' = f.top
    IN
    /\ r.kind = "older"
    /\ inflight' = Remove(inflight, i)
    /\ SetCursors(OlderCursors(Cursors, r.data))
    /\ IF r.data.messages # <<>>
       THEN prepend(prepend_messages_to_list(IF r.in_doc THEN messages_list ELSE <<>>,
                        r.in_doc, messages_list, pending_tapbacks, r.data.messages, scrollTop))
       ELSE UNCHANGED <<messages_list, pending_tapbacks, scrollTop>>
    /\ messages_is_loading' = FALSE
    /\ last_event' = Event("older", r)
    /\ UNCHANGED <<log_len, pruned, current_view, messages_is_dm, messages_scroll_paused,
          saved_messages_scroll_top, stored_item, last_read_store, last_read_dm, main_content, jump_hidden>>

(***************************************************************************)
(* load_newer_messages after its fetch.                                    *)
(***************************************************************************)
\* load_newer_messages assigning the cursor that load_older_messages assigns
NewerCursors_oldest(cur, data) ==
    IF data.messages # <<>>
    THEN [cur EXCEPT !.has_more_newer = data.has_more_newer,
                     !.oldest = KeyOf(data.messages[Len(data.messages)])]
    ELSE [cur EXCEPT !.has_more_newer = FALSE]

NewerCursors(cur, data) ==
    IF data.messages # <<>>
    THEN [cur EXCEPT !.has_more_newer = data.has_more_newer,
                     !.newest = KeyOf(data.messages[Len(data.messages)])]
    ELSE [cur EXCEPT !.has_more_newer = FALSE]

\* update_jump_to_newest_button that leaves the button as it is
JumpHidden_kept(has_more_newer) == jump_hidden

\* update_jump_to_newest_button, when the button is in the document
JumpHidden(has_more_newer) ==
    IF main_content = "list" THEN ~has_more_newer ELSE jump_hidden

DeliverNewer(i) ==
    LET r == inflight[i]
        cursors(c) ==
            /\ SetCursors(c)
            /\ jump_hidden' = JumpHidden(c.has_more_newer)
        append(f) ==
            /\ messages_list' = f.doc
            /\ pending_tapbacks' = f.pend
    IN
    /\ r.kind = "newer"
    /\ inflight' = Remove(inflight, i)
    /\ cursors(NewerCursors(Cursors, r.data))
    /\ IF r.data.messages # <<>>
       THEN append(append_messages_to_list(IF r.in_doc THEN messages_list ELSE <<>>,
                       r.in_doc, messages_list, pending_tapbacks, r.data.messages))
       ELSE UNCHANGED <<messages_list, pending_tapbacks>>
    /\ messages_is_loading' = FALSE
    /\ last_event' = Event("newer", r)
    /\ UNCHANGED <<log_len, pruned, current_view, messages_is_dm, messages_scroll_paused,
          saved_messages_scroll_top, stored_item, last_read_store, last_read_dm, main_content, scrollTop>>

(***************************************************************************)
(* run_slow_poll -> update_messages_list, up to its fetch.                 *)
(***************************************************************************)
PollTick ==
    /\ ~messages_scroll_paused
    /\ \/ current_view = "channel" /\ current_channel_index # NoValue
       \/ current_view = "direct_messages"
    /\ main_content = "list"
    /\ ~messages_is_loading
    /\ messages_newest # Null
    /\ Len(inflight) < MaxInFlight
    /\ inflight' = Append(inflight,
          FetchFor(current_view = "direct_messages", current_channel_index,
                   "poll", After(messages_newest.rx), TRUE, NoPos, Null))
    /\ last_event' = Event("step", Null)
    /\ UNCHANGED <<log_len, pruned, current_view, messages_is_dm, messages_has_more_older,
          messages_has_more_newer, messages_is_loading, messages_oldest,
          messages_newest, messages_scroll_paused, saved_messages_scroll_top,
          pending_tapbacks, stored_item, last_read_store, last_read_dm, main_content, messages_list,
          jump_hidden, scrollTop>>

\* update_messages_list after its fetch
\* update_messages_list taking has_more_older from the response as well
PollCursors_both_flags(cur, data) ==
    [cur EXCEPT !.has_more_newer = data.has_more_newer,
                !.has_more_older = data.has_more_older,
                !.newest = IF data.messages # <<>>
                           THEN KeyOf(data.messages[Len(data.messages)])
                           ELSE cur.newest]

PollCursors(cur, data) ==
    [cur EXCEPT !.has_more_newer = data.has_more_newer,
                !.newest = IF data.messages # <<>>
                           THEN KeyOf(data.messages[Len(data.messages)])
                           ELSE cur.newest]

DeliverPoll(i) ==
    LET r == inflight[i]
        cursors(c) ==
            /\ SetCursors(c)
            /\ jump_hidden' = JumpHidden(c.has_more_newer)
        append(f) ==
            /\ messages_list' = f.doc
            /\ pending_tapbacks' = f.pend
    IN
    /\ r.kind = "poll"
    /\ inflight' = Remove(inflight, i)
    /\ cursors(PollCursors(Cursors, r.data))
    /\ IF r.data.messages # <<>>
       THEN append(append_messages_to_list(IF r.in_doc THEN messages_list ELSE <<>>,
                       r.in_doc, messages_list, pending_tapbacks, r.data.messages))
       ELSE UNCHANGED <<messages_list, pending_tapbacks>>
    /\ last_event' = Event("poll", r)
    /\ UNCHANGED <<log_len, pruned, current_view, messages_is_dm, messages_is_loading,
          messages_scroll_paused, saved_messages_scroll_top, stored_item, last_read_store, last_read_dm,
          main_content, scrollTop>>

(***************************************************************************)
(* handle_jump_to_newest: the click on the visible button, up to the fetch.*)
(***************************************************************************)
JumpClick ==
    /\ main_content = "list"
    /\ ~jump_hidden
    /\ ~messages_is_loading
    /\ Len(inflight) < MaxInFlight
    /\ messages_is_loading' = TRUE
    /\ pending_tapbacks' = <<>>
    /\ inflight' = Append(inflight, Fetch("jump", Newest, TRUE, NoPos, Null))
    /\ last_event' = Event("step", Null)
    /\ UNCHANGED <<log_len, pruned, current_view, messages_is_dm, messages_has_more_older,
          messages_has_more_newer, messages_oldest, messages_newest,
          messages_scroll_paused, saved_messages_scroll_top, stored_item, last_read_store, last_read_dm,
          main_content, messages_list, jump_hidden, scrollTop>>

\* handle_jump_to_newest after its fetch, the cursors not reset before the update
JumpCursors_extend(cur, data) == update_message_cursors(cur, data)

\* handle_jump_to_newest after its fetch
JumpCursors(cur, data) ==
    update_message_cursors([cur EXCEPT !.oldest = Null, !.newest = Null], data)

JumpList(in_doc, doc, pend, messages) ==
    LET mark(f) == [doc |-> IF in_doc THEN MarkAll(f.doc) ELSE f.doc, pend |-> f.pend]
    IN mark(append_messages_to_list(<<>>, in_doc, IF in_doc THEN <<>> ELSE doc, pend, messages))

DeliverJump(i) ==
    LET r == inflight[i]
        messages == r.data.messages
        render(c, f) ==
            /\ SetCursors(c)
            /\ messages_list' = f.doc
            /\ pending_tapbacks' = f.pend
            /\ scrollTop' = IF r.in_doc THEN Clamp(f.doc, scrollHeight(f.doc)) ELSE scrollTop
            /\ jump_hidden' = JumpHidden(c.has_more_newer)
    IN
    /\ r.kind = "jump"
    /\ inflight' = Remove(inflight, i)
    /\ render(JumpCursors(Cursors, r.data),
              JumpList(r.in_doc, messages_list, pending_tapbacks, messages))
    /\ IF messages # <<>>
       THEN SetItem(build_last_read_key(r.is_dm, r.channel_index),
                    set_last_read(messages[Len(messages)]))
       ELSE UNCHANGED <<stored_item, last_read_store, last_read_dm>>
    /\ messages_is_loading' = FALSE
    /\ last_event' = Event("jump", r)
    /\ UNCHANGED <<log_len, pruned, current_view, messages_is_dm, messages_scroll_paused,
          saved_messages_scroll_top, main_content>>

\* the fetch of a pagination call or of the poll is rejected
FailPage(i) ==
    /\ inflight[i].kind \in {"older", "newer", "jump", "poll"}
    /\ inflight' = Remove(inflight, i)
    /\ messages_is_loading' = IF inflight[i].kind = "poll" THEN messages_is_loading ELSE FALSE
    /\ last_event' = Event("page_failed", inflight[i])
    /\ UNCHANGED <<log_len, pruned, current_view, messages_is_dm, messages_has_more_older,
          messages_has_more_newer, messages_oldest, messages_newest,
          messages_scroll_paused, saved_messages_scroll_top, pending_tapbacks,
          stored_item, last_read_store, last_read_dm, main_content, messages_list, jump_hidden, scrollTop>>

(***************************************************************************)
(* Node search: fetch_and_render_nodes_search.  A search is issued with    *)
(* the next request id; its response arrives in two parts, the status line *)
(* and headers (await fetch) and then the body (await response.json()).    *)
(***************************************************************************)
Queries == {"", "a", "b"}

Search(request_id, query, stage) ==
    [request_id |-> request_id, query |-> query, stage |-> stage]

\* the start of fetch_and_render_nodes_search, from the debounce timer of the
\* search input, the Enter key or the clear button, which set the query
SearchStart(query) ==
    /\ nodes_search_request_id < MaxSearches
    /\ nodes_search_query' = query
    /\ nodes_search_request_id' = nodes_search_request_id + 1
    /\ search_inflight' =
          Append(search_inflight, Search(nodes_search_request_id + 1, query, "sent"))
    /\ last_event' = Event("search", Null)
    /\ UNCHANGED <<nodes_list, poll_failure_count, connection_error,
          known_local_node_id, known_first_seen, local_node, stats_inflight>>
    /\ UNCHANGED nodes_vars
    /\ UNCHANGED conv_vars

\* "Ignore stale responses": the test made when fetch() has resolved
is_stale(request_id, latest) == request_id # latest

\* is_stale that lets every response through
is_stale_never(request_id, latest) == FALSE

\* fetch() resolves with an ok response: a stale response is dropped, any
\* other goes on to read its body
SearchResponse(i) ==
    /\ i \in 1..Len(search_inflight)
    /\ search_inflight[i].stage = "sent"
    /\ search_inflight' =
          IF is_stale(search_inflight[i].request_id, nodes_search_request_id)
          THEN Remove(search_inflight, i)
          ELSE [search_inflight EXCEPT ![i].stage = "body"]
    /\ last_event' = Event("search_response", Null)
    /\ UNCHANGED <<nodes_search_request_id, nodes_search_query, nodes_list,
          poll_failure_count, connection_error, known_local_node_id,
          known_first_seen, local_node, stats_inflight>>
    /\ UNCHANGED nodes_vars
    /\ UNCHANGED conv_vars

\* response.json() resolves: the list is rebuilt from the body
SearchBody(i) ==
    /\ i \in 1..Len(search_inflight)
    /\ search_inflight[i].stage = "body"
    /\ nodes_list' = [query |-> search_inflight[i].query,
                      request_id |-> search_inflight[i].request_id]
    /\ search_inflight' = Remove(search_inflight, i)
    /\ last_event' = Event("search_applied", Null)
    /\ UNCHANGED <<nodes_search_request_id, nodes_search_query,
          poll_failure_count, connection_error, known_local_node_id,
          known_first_seen, local_node, stats_inflight>>
    /\ nodes_appended' = <<>>
    /\ UNCHANGED <<nodes_inflight, is_loading_more_nodes>>
    /\ UNCHANGED conv_vars

\* the fetch is rejected, the status is not ok or the body cannot be read
SearchFail(i) ==
    /\ i \in 1..Len(search_inflight)
    /\ search_inflight' = Remove(search_inflight, i)
    /\ last_event' = Event("search_failed", Null)
    /\ UNCHANGED <<nodes_search_request_id, nodes_search_query, nodes_list,
          poll_failure_count, connection_error, known_local_node_id,
          known_first_seen, local_node, stats_inflight>>
    /\ UNCHANGED nodes_vars
    /\ UNCHANGED conv_vars

(***************************************************************************)
(* The node list beside the search: update_nodes_list (slow poll) and      *)
(* load_more_nodes (infinite scroll).  A request carries the query that    *)
(* was current when the function was called.  The server holds more nodes  *)
(* than one unfiltered page shows.                                         *)
(***************************************************************************)
NodesRequest(kind, query) == [kind |-> kind, query |-> query]

\* the list was built from an unfiltered page: dataset.offset < dataset.total
MoreNodesToLoad == IF nodes_list = Null THEN TRUE ELSE nodes_list.query = ""

\* run_slow_poll calls update_nodes_list, up to its await
NodesPollTick ==
    /\ Len(nodes_inflight) < MaxNodesInFlight
    /\ nodes_inflight' = Append(nodes_inflight, NodesRequest("poll", nodes_search_query))
    /\ last_event' = Event("step", Null)
    /\ UNCHANGED <<nodes_search_request_id, nodes_search_query, nodes_list,
          search_inflight, poll_failure_count, connection_error,
          known_local_node_id, known_first_seen, local_node, stats_inflight,
          is_loading_more_nodes, nodes_appended>>
    /\ UNCHANGED conv_vars

\* update_nodes_list after its await: the list is rebuilt from the response
DeliverNodesPoll(i) ==
    /\ i \in 1..Len(nodes_inflight)
    /\ nodes_inflight[i].kind = "poll"
    /\ nodes_inflight' = Remove(nodes_inflight, i)
    /\ nodes_list' = [query |-> nodes_inflight[i].query, request_id |-> 0]
    /\ nodes_appended' = <<>>
    /\ last_event' = Event("nodes_poll", Null)
    /\ UNCHANGED <<nodes_search_request_id, nodes_search_query, search_inflight,
          poll_failure_count, connection_error, known_local_node_id,
          known_first_seen, local_node, stats_inflight, is_loading_more_nodes>>
    /\ UNCHANGED conv_vars

\* handle_nodes_scroll near the bottom calls load_more_nodes, up to its await
LoadMoreNodes ==
    /\ ~is_loading_more_nodes
    /\ nodes_search_query = ""
    /\ MoreNodesToLoad
    /\ Len(nodes_appended) < MaxNodePages
    /\ Len(nodes_inflight) < MaxNodesInFlight
    /\ is_loading_more_nodes' = TRUE
    /\ nodes_inflight' = Append(nodes_inflight, NodesRequest("more", nodes_search_query))
    /\ last_event' = Event("step", Null)
    /\ UNCHANGED <<nodes_search_request_id, nodes_search_query, nodes_list,
          search_inflight, poll_failure_count, connection_error,
          known_local_node_id, known_first_seen, local_node, stats_inflight,
          nodes_appended>>
    /\ UNCHANGED conv_vars

\* load_more_nodes after its await: the page is appended
DeliverMoreNodes(i) ==
    /\ i \in 1..Len(nodes_inflight)
    /\ nodes_inflight[i].kind = "more"
    /\ nodes_inflight' = Remove(nodes_inflight, i)
    /\ nodes_appended' = Append(nodes_appended, nodes_inflight[i].query)
    /\ is_loading_more_nodes' = FALSE
    /\ last_event' = Event("nodes_more", Null)
    /\ UNCHANGED <<nodes_search_request_id, nodes_search_query, nodes_list,
          search_inflight, poll_failure_count, connection_error,
          known_local_node_id, known_first_seen, local_node, stats_inflight>>
    /\ UNCHANGED conv_vars

\* the fetch of update_nodes_list or load_more_nodes is rejected
FailNodes(i) ==
    /\ i \in 1..Len(nodes_inflight)
    /\ nodes_inflight' = Remove(nodes_inflight, i)
    /\ is_loading_more_nodes' =
          IF nodes_inflight[i].kind = "more" THEN FALSE ELSE is_loading_more_nodes
    /\ last_event' = Event("nodes_failed", Null)
    /\ UNCHANGED <<nodes_search_request_id, nodes_search_query, nodes_list,
          search_inflight, poll_failure_count, connection_error,
          known_local_node_id, known_first_seen, local_node, stats_inflight,
          nodes_appended>>
    /\ UNCHANGED conv_vars

(***************************************************************************)
(* The fast poll: run_fast_poll with check_for_state_change, and the       *)
(* connection error display.                                               *)
(***************************************************************************)
NodeIds == {"!a", "!b"}
\* first_seen is compared for equality only: two times, as labels
FirstSeens == {"t1", "t2"}

\* stats_data.local_node: absent, or the node the collector is attached to
LocalNodes == {Null} \cup [node_id : NodeIds, first_seen : FirstSeens]

\* the device is swapped, the database is reset, or the local node row
\* appears or disappears
ServerChange ==
    /\ local_node' \in LocalNodes \ {local_node}
    /\ last_event' = Event("step", Null)
    /\ UNCHANGED <<nodes_search_request_id, nodes_search_query, nodes_list,
          search_inflight, poll_failure_count, connection_error,
          known_local_node_id, known_first_seen, stats_inflight>>
    /\ UNCHANGED nodes_vars
    /\ UNCHANGED conv_vars

\* the interval timer calls run_fast_poll, which awaits fetch_stats
FastPollTick ==
    /\ Len(stats_inflight) < MaxStatsInFlight
    /\ stats_inflight' = Append(stats_inflight, [local_node |-> local_node])
    /\ last_event' = Event("step", Null)
    /\ UNCHANGED <<nodes_search_request_id, nodes_search_query, nodes_list,
          search_inflight, poll_failure_count, connection_error,
          known_local_node_id, known_first_seen, local_node>>
    /\ UNCHANGED nodes_vars
    /\ UNCHANGED conv_vars

\* check_for_state_change that compares the node id only
check_for_state_change_node_only(stats_local_node, known_id, known_seen) ==
    IF stats_local_node = Null
    THEN [reload |-> FALSE, known_id |-> known_id, known_seen |-> known_seen]
    ELSE IF known_id = NoValue
    THEN [reload |-> FALSE, known_id |-> stats_local_node.node_id,
          known_seen |-> stats_local_node.first_seen]
    ELSE [reload |-> stats_local_node.node_id # known_id,
          known_id |-> known_id, known_seen |-> known_seen]

check_for_state_change(stats_local_node, known_id, known_seen) ==
    IF stats_local_node = Null
    THEN [reload |-> FALSE, known_id |-> known_id, known_seen |-> known_seen]
    ELSE IF known_id = NoValue
    THEN [reload |-> FALSE, known_id |-> stats_local_node.node_id,
          known_seen |-> stats_local_node.first_seen]
    ELSE IF stats_local_node.node_id # known_id
    THEN [reload |-> TRUE, known_id |-> known_id, known_seen |-> known_seen]
    ELSE IF stats_local_node.first_seen # known_seen
    THEN [reload |-> TRUE, known_id |-> known_id, known_seen |-> known_seen]
    ELSE [reload |-> FALSE, known_id |-> known_id, known_seen |-> known_seen]

\* the script's state after the page has been loaded
InitScript ==
    /\ nodes_search_request_id = 0
    /\ nodes_search_query = ""
    /\ nodes_list = Null
    /\ search_inflight = <<>>
    /\ poll_failure_count = 0
    /\ connection_error = FALSE
    /\ known_local_node_id = NoValue
    /\ known_first_seen = NoValue
    /\ stats_inflight = <<>>
    /\ nodes_inflight = <<>>
    /\ is_loading_more_nodes = FALSE
    /\ nodes_appended = <<>>

\* fetch_stats resolves: the try block of run_fast_poll.  On a reload the
\* page is loaded again and nothing of the script's state is kept.
DeliverStats(i) ==
    LET check(c) ==
            IF c.reload
            THEN /\ nodes_search_request_id' = 0
                 /\ nodes_search_query' = ""
                 /\ nodes_list' = Null
                 /\ search_inflight' = <<>>
                 /\ known_local_node_id' = NoValue
                 /\ known_first_seen' = NoValue
                 /\ stats_inflight' = <<>>
                 /\ nodes_inflight' = <<>>
                 /\ is_loading_more_nodes' = FALSE
                 /\ nodes_appended' = <<>>
                 /\ last_event' = Event("reload", Null)
            ELSE /\ known_local_node_id' = c.known_id
                 /\ known_first_seen' = c.known_seen
                 /\ stats_inflight' = Remove(stats_inflight, i)
                 /\ last_event' = Event("stats", Null)
                 /\ UNCHANGED <<nodes_search_request_id, nodes_search_query,
                       nodes_list, search_inflight, nodes_vars>>
    IN
    /\ i \in 1..Len(stats_inflight)
    /\ poll_failure_count' = 0
    /\ connection_error' = FALSE
    /\ check(check_for_state_change(stats_inflight[i].local_node,
                                    known_local_node_id, known_first_seen))
    /\ UNCHANGED local_node
    /\ UNCHANGED conv_vars

\* the catch block of run_fast_poll showing the error one failure early
show_after_failure_early(count) == count >= max_poll_failures - 1

\* the catch block of run_fast_poll: whether show_connection_error is called
show_after_failure(count) == count >= max_poll_failures

\* fetch_stats is rejected
FailStats(i) ==
    /\ i \in 1..Len(stats_inflight)
    /\ poll_failure_count < MaxFailures
    /\ poll_failure_count' = poll_failure_count + 1
    /\ connection_error' = (connection_error \/ show_after_failure(poll_failure_count + 1))
    /\ stats_inflight' = Remove(stats_inflight, i)
    /\ last_event' = Event("stats_failed", Null)
    /\ UNCHANGED <<nodes_search_request_id, nodes_search_query, nodes_list,
          search_inflight, known_local_node_id, known_first_seen, local_node>>
    /\ UNCHANGED nodes_vars
    /\ UNCHANGED conv_vars

(***************************************************************************)
(* The page as loaded: the server-rendered dashboard, no request issued.   *)
(***************************************************************************)
InitClient ==
    /\ current_view = "home"
    /\ messages_is_dm = FALSE
    /\ messages_has_more_older = FALSE
    /\ messages_has_more_newer = FALSE
    /\ messages_is_loading = FALSE
    /\ messages_oldest = Null
    /\ messages_newest = Null
    /\ messages_scroll_paused = FALSE
    /\ saved_messages_scroll_top = Null
    /\ pending_tapbacks = <<>>
    /\ main_content = "page"
    /\ messages_list = <<>>
    /\ jump_hidden = TRUE
    /\ scrollTop = 0
    /\ inflight = <<>>
    /\ last_event = Event("init", Null)

\* the responses, in any order
Responses ==
    \/ \E i \in 1..Len(inflight) : DeliverContext(i) /\ UNCHANGED shell_vars
    \/ \E i \in 1..Len(inflight) : DeliverResumeNewer(i) /\ UNCHANGED shell_vars
    \/ \E i \in 1..Len(inflight) : DeliverFresh(i) /\ UNCHANGED shell_vars
    \/ \E i \in 1..Len(inflight) : FailView(i) /\ UNCHANGED shell_vars
    \/ \E i \in 1..Len(inflight) : DeliverOlder(i) /\ UNCHANGED shell_vars
    \/ \E i \in 1..Len(inflight) : DeliverNewer(i) /\ UNCHANGED shell_vars
    \/ \E i \in 1..Len(inflight) : DeliverPoll(i) /\ UNCHANGED shell_vars
    \/ \E i \in 1..Len(inflight) : DeliverJump(i) /\ UNCHANGED shell_vars
    \/ \E i \in 1..Len(inflight) : FailPage(i) /\ UNCHANGED shell_vars

(***************************************************************************)
(* Spec: a first visit; the log is empty when the page loads and grows.    *)
(***************************************************************************)
\* the conversation specifications leave the rest of the page as loaded
InitShell ==
    /\ InitScript
    /\ local_node = Null

Init ==
    /\ log_len = 0
    /\ pruned = 0
    /\ last_read_store = NoPos
    /\ last_read_dm = NoPos
    /\ stored_item = JSON_stringify(last_read_store)
    /\ InitClient
    /\ InitShell

Next ==
    \/ NewEntry /\ UNCHANGED shell_vars
    \/ ShowChannel /\ UNCHANGED shell_vars
    \/ ShowHome /\ UNCHANGED shell_vars
    \/ ShowDetail /\ UNCHANGED shell_vars
    \/ \E top \in 0..MaxScroll(messages_list) : Scroll(top) /\ UNCHANGED shell_vars
    \/ ScrollSettle /\ UNCHANGED shell_vars
    \/ PollTick /\ UNCHANGED shell_vars
    \/ JumpClick /\ UNCHANGED shell_vars
    \/ Responses

Spec == Init /\ [][Next]_vars

(***************************************************************************)
(* SpecBacklog: a later visit; the log holds BacklogRows rows, the oldest  *)
(* of them possibly pruned, and localStorage may hold the position of row  *)
(* 1 or of row 3 from an earlier visit.  A scroll event is taken together  *)
(* with the expiry of its timer, and the detail views are left out.        *)
(***************************************************************************)
InitBacklog ==
    /\ log_len = BacklogRows
    /\ pruned \in {0, PrunedRows}
    /\ last_read_store \in {NoPos, set_last_read(1), set_last_read(3)}
    /\ last_read_dm = NoPos
    /\ stored_item = JSON_stringify(last_read_store)
    /\ InitClient
    /\ InitShell

NextBacklog ==
    \/ ShowChannel /\ UNCHANGED shell_vars
    \/ ShowHome /\ UNCHANGED shell_vars
    \/ \E top \in 0..MaxScroll(messages_list) : ScrollSettled(top) /\ UNCHANGED shell_vars
    \/ PollTick /\ UNCHANGED shell_vars
    \/ JumpClick /\ UNCHANGED shell_vars
    \/ Responses

SpecBacklog == InitBacklog /\ [][NextBacklog]_vars

(***************************************************************************)
(* SpecStored: the page is loaded with some item under the key of the read *)
(* position, left there by an earlier visit or by anything else that       *)
(* writes to localStorage; the log holds StoredRows rows.                  *)
(***************************************************************************)
InitStored ==
    /\ log_len = StoredRows
    /\ pruned = 0
    /\ stored_item \in StoredItems
    /\ last_read_store = get_last_read(stored_item)
    /\ last_read_dm = NoPos
    /\ InitClient
    /\ InitShell

SpecStored == InitStored /\ [][NextBacklog]_vars

(***************************************************************************)
(* SpecTwo: two conversations, the channel with TwoRows rows and the       *)
(* direct messages; the position of row 1 of the channel may be stored.    *)
(* Every fetch is answered.                                                *)
(***************************************************************************)
InitTwo ==
    /\ log_len = TwoRows
    /\ pruned = 0
    /\ last_read_store \in {NoPos, set_last_read(1)}
    /\ last_read_dm = NoPos
    /\ stored_item = JSON_stringify(last_read_store)
    /\ InitClient
    /\ InitShell

NextTwo ==
    \/ ShowChannel /\ UNCHANGED shell_vars
    \/ ShowDirectMessages /\ UNCHANGED shell_vars
    \/ ShowHome /\ UNCHANGED shell_vars
    \/ \E top \in 0..MaxScroll(messages_list) : ScrollSettled(top) /\ UNCHANGED shell_vars
    \/ PollTick /\ UNCHANGED shell_vars
    \/ JumpClick /\ UNCHANGED shell_vars
    \/ \E i \in 1..Len(inflight) : DeliverContext(i) /\ UNCHANGED shell_vars
    \/ \E i \in 1..Len(inflight) : DeliverResumeNewer(i) /\ UNCHANGED shell_vars
    \/ \E i \in 1..Len(inflight) : DeliverFresh(i) /\ UNCHANGED shell_vars
    \/ \E i \in 1..Len(inflight) : DeliverOlder(i) /\ UNCHANGED shell_vars
    \/ \E i \in 1..Len(inflight) : DeliverNewer(i) /\ UNCHANGED shell_vars
    \/ \E i \in 1..Len(inflight) : DeliverPoll(i) /\ UNCHANGED shell_vars
    \/ \E i \in 1..Len(inflight) : DeliverJump(i) /\ UNCHANGED shell_vars

SpecTwo == InitTwo /\ [][NextTwo]_vars

(***************************************************************************)
(* SpecTapbacks: attach_tapback_to_parent and render_tapbacks on one list  *)
(* item.  The item has recorded the first a, b and c reactions of the      *)
(* three pools, in the order of their arrival; one reaction of the pools,  *)
(* recorded already or not, is then attached.                              *)
(***************************************************************************)
Recorded(a, b, c) ==
    [k \in 1..a |-> BurstTapback(0, k)] \o [k \in 1..b |-> BurstTapback(1, k)]
        \o [k \in 1..c |-> BurstTapback(2, k)]

InitTapbacks ==
    /\ log_len = 0
    /\ pruned = 0
    /\ last_read_store = set_last_read(BurstParent)
    /\ last_read_dm = NoPos
    /\ stored_item = JSON_stringify(last_read_store)
    /\ current_view = "channel"
    /\ messages_is_dm = FALSE
    /\ messages_has_more_older = FALSE
    /\ messages_has_more_newer = FALSE
    /\ messages_is_loading = FALSE
    /\ messages_oldest = KeyOf(BurstParent)
    /\ messages_newest = KeyOf(BurstParent)
    /\ messages_scroll_paused = FALSE
    /\ saved_messages_scroll_top = Null
    /\ pending_tapbacks = <<>>
    /\ main_content = "list"
    /\ \E a, b, c \in 0..BurstPool :
          messages_list = <<[mark_message_read(create_message_item(BurstParent))
                                EXCEPT !.taps = Recorded(a, b, c)]>>
    /\ jump_hidden = TRUE
    /\ scrollTop = 0
    /\ inflight = <<>>
    /\ last_event = Event("init", Null)
    /\ InitShell

AttachTapback(t) ==
    /\ last_event = Event("init", Null)
    /\ messages_list' = attach_tapback_to_parent(messages_list, t).doc
    /\ last_event' = Event("attach", Null)
    /\ UNCHANGED <<log_len, pruned, current_view, messages_is_dm, messages_has_more_older,
          messages_has_more_newer, messages_is_loading, messages_oldest,
          messages_newest, messages_scroll_paused, saved_messages_scroll_top,
          pending_tapbacks, stored_item, last_read_store, last_read_dm, main_content, jump_hidden,
          scrollTop, inflight>>

NextTapbacks ==
    \E e \in 0..2 : \E k \in 1..BurstPool :
        AttachTapback(BurstTapback(e, k)) /\ UNCHANGED shell_vars

SpecTapbacks == InitTapbacks /\ [][NextTapbacks]_vars

(***************************************************************************)
(* SpecSearch: the node search of the sidebar; the conversation view is    *)
(* not opened.                                                             *)
(***************************************************************************)
InitSearch ==
    /\ log_len = 0
    /\ pruned = 0
    /\ last_read_store = NoPos
    /\ last_read_dm = NoPos
    /\ stored_item = JSON_stringify(last_read_store)
    /\ InitClient
    /\ InitShell

NextSearch ==
    \/ \E query \in Queries : SearchStart(query)
    \/ \E i \in 1..Len(search_inflight) : SearchResponse(i)
    \/ \E i \in 1..Len(search_inflight) : SearchBody(i)
    \/ \E i \in 1..Len(search_inflight) : SearchFail(i)

SpecSearch == InitSearch /\ [][NextSearch]_vars

(***************************************************************************)
(* SpecNodes: the node search together with the slow poll of the node list *)
(* and the infinite scroll.                                                *)
(***************************************************************************)
NextNodes ==
    \/ NextSearch
    \/ NodesPollTick
    \/ LoadMoreNodes
    \/ \E i \in 1..Len(nodes_inflight) : DeliverNodesPoll(i)
    \/ \E i \in 1..Len(nodes_inflight) : DeliverMoreNodes(i)
    \/ \E i \in 1..Len(nodes_inflight) : FailNodes(i)

SpecNodes == InitSearch /\ [][NextNodes]_vars

(***************************************************************************)
(* SpecFastPoll: the fast poll against a server whose local node may       *)
(* change; the conversation view is not opened.                            *)
(***************************************************************************)
InitFastPoll ==
    /\ log_len = 0
    /\ pruned = 0
    /\ last_read_store = NoPos
    /\ last_read_dm = NoPos
    /\ stored_item = JSON_stringify(last_read_store)
    /\ InitClient
    /\ InitScript
    /\ local_node \in LocalNodes

NextFastPoll ==
    \/ ServerChange
    \/ FastPollTick
    \/ \E i \in 1..Len(stats_inflight) : DeliverStats(i)
    \/ \E i \in 1..Len(stats_inflight) : FailStats(i)

SpecFastPoll == InitFastPoll /\ [][NextFastPoll]_vars

(***************************************************************************)
(* Properties of the message window.                                       *)
(***************************************************************************)
\* the entries shown as items of the window, top to bottom, and their marks
WindowIds == [k \in 1..Len(messages_list) |-> messages_list[k].id]
WindowRead == [k \in 1..Len(messages_list) |-> messages_list[k].read]

BothDefined == messages_oldest # Null /\ messages_newest # Null

\* requests of load_older_messages, load_newer_messages, handle_jump_to_newest
\* and update_messages_list that were issued for the list now shown
PageFetches ==
    {i \in 1..Len(inflight) :
        inflight[i].kind \in {"older", "newer", "jump", "poll"} /\ inflight[i].in_doc}

\* every entry of the page has its key between the two cursors
InsideWindow(messages) ==
    /\ messages # <<>>
    /\ BothDefined
    /\ \A k \in 1..Len(messages) :
          /\ KeyLeq(messages_oldest, KeyOf(messages[k]))
          /\ KeyLeq(KeyOf(messages[k]), messages_newest)

\* (rx_time, message_id) of entry id is at or before the read position
ReadOrderLeq(id, last_read) ==
    \/ Rx(id) < last_read.rx_time
    \/ (Rx(id) = last_read.rx_time /\ Mid(id) <= last_read.message_id)

\* C1: no message_id appears more than once among the items of the window,
\* whatever responses were merged into it.
C1_NoDuplicateMessageId ==
    \A j, k \in 1..Len(messages_list) :
        j # k => Mid(messages_list[j].id) # Mid(messages_list[k].id)

\* C2: at most one of load-older, load-newer, jump-to-newest and poll has a
\* fetch outstanding for the list that is shown.
C2_OneFetchOutstanding == Cardinality(PageFetches) <= 1

\* the list of request r is still shown and the cursor that r was asked
\* from is still the current one: no activation and no jump came in between
SameSession(r) ==
    /\ r.in_doc
    /\ BothDefined
    /\ r.kind = "older" => r.q.rx = messages_oldest.rx
    /\ r.kind = "newer" => r.q.rx = messages_newest.rx

C4_InsideWindowKeepsBounds ==
    [][\A i \in 1..Len(inflight) :
          (/\ inflight[i].in_doc
           /\ InsideWindow(inflight[i].data.messages)
           /\ (DeliverOlder(i) \/ DeliverNewer(i) \/ DeliverPoll(i)))
          => UNCHANGED <<messages_oldest, messages_newest>>]_vars

\* C5: whenever both cursors are defined, the oldest key is at or before the
\* newest key.
C5_OldestLeqNewest == BothDefined => KeyLeq(messages_oldest, messages_newest)

\* C6: completing a load-older leaves has_more_newer unchanged; completing a
\* load-newer or a poll leaves has_more_older unchanged.
C6_FlagsIndependent ==
    [][\A i \in 1..Len(inflight) :
          /\ DeliverOlder(i) => UNCHANGED messages_has_more_newer
          /\ (DeliverNewer(i) \/ DeliverPoll(i)) => UNCHANGED messages_has_more_older]_vars

\* a load-older has brought in the first row of the log, the server's answer
\* said that newer entries exist, and has_more_newer is still false
C6_Witness ==
    /\ last_event = "older"
    /\ main_content = "list"
    /\ messages_oldest = KeyOf(1)
    /\ Len(messages_list) > 1
    /\ ~messages_has_more_newer

\* C7: the items of the window are strictly ascending by (rx_time, id).
C7_WindowAscending ==
    \A k \in 1..(Len(messages_list) - 1) :
        KeyLess(KeyOf(messages_list[k].id), KeyOf(messages_list[k + 1].id))

\* C8: when the resume of a stored position P completes, the window holds the
\* primary entries of the context page followed by those of the page after
\* P.rx_time, exactly the items with (rx_time, message_id) <= P are marked
\* read, has_more_older is the context response's flag and has_more_newer the
\* newer response's flag.
C8_ResumeWindow ==
    [][\A i \in 1..Len(inflight) :
          DeliverResumeNewer(i) =>
             /\ inflight[i].context_data.messages # <<>>
             /\ WindowIds' = NormalOf(inflight[i].context_data.messages
                                      \o inflight[i].data.messages)
             /\ \A k \in 1..Len(messages_list') :
                   messages_list'[k].read
                      <=> ReadOrderLeq(messages_list'[k].id, inflight[i].last_read)
             /\ messages_has_more_older' = inflight[i].context_data.has_more_older
             /\ messages_has_more_newer' = inflight[i].data.has_more_newer]_vars

\* the stored position is row 1 and the log has three rows: the window is the
\* whole log, row 1 read, rows 2 and 3 unread, nothing newer
C8_Witness ==
    /\ last_event = "resume"
    /\ log_len = 3
    /\ WindowIds = <<1, 2, 3>>
    /\ WindowRead = <<TRUE, FALSE, FALSE>>
    /\ ~messages_has_more_newer

\* C9: when the context fetch of a resume returns no entry, the newest page
\* is fetched next, and when it arrives with entries the window holds its
\* primary entries and the stored position is the last entry of the page.
C9_FallbackToFresh ==
    [][\A i \in 1..Len(inflight) :
          /\ (DeliverContext(i) /\ inflight[i].data.messages = <<>>)
             => /\ inflight'[Len(inflight')].kind = "fresh"
                /\ inflight'[Len(inflight')].q = Newest
          /\ (/\ DeliverFresh(i)
              /\ inflight[i].last_read # NoPos
              /\ inflight[i].data.messages # <<>>)
             => /\ main_content' = "list"
                /\ WindowIds' = NormalOf(inflight[i].data.messages)
                /\ last_read_store'
                     = set_last_read(inflight[i].data.messages[Len(inflight[i].data.messages)])]_vars

\* the position of the pruned row 1 was stored; the fallback has shown the
\* newest page and stored the last row of the log
C9_Witness ==
    /\ last_event = "fallback"
    /\ pruned > 0
    /\ main_content = "list"
    /\ WindowIds # <<>>
    /\ last_read_store = set_last_read(BacklogRows)

\* C10: after a fresh load with a non-empty page every item is marked read
\* and the stored position is an entry shown as an item of the window.
C10_FreshPositionDisplayed ==
    (last_event = "fresh" /\ main_content = "list")
    => /\ \A k \in 1..Len(messages_list) : messages_list[k].read
       /\ FindLi(messages_list, last_read_store.message_id) # 0

Merge(i) ==
    \/ DeliverResumeNewer(i)
    \/ DeliverFresh(i)
    \/ DeliverOlder(i)
    \/ DeliverNewer(i)
    \/ DeliverPoll(i)
    \/ DeliverJump(i)

\* the reactions recorded on the item of the window with this message_id
TapsOn(doc, message_id) ==
    IF FindLi(doc, message_id) = 0 THEN {} ELSE SeqSet(doc[FindLi(doc, message_id)].taps)

\* the reactions queued under this message_id
PendingFor(pend, message_id) ==
    IF message_id \in DOMAIN pend THEN SeqSet(pend[message_id]) ELSE {}

\* C15: a reaction of a merged page whose parent is not shown after the
\* merge is queued under the parent's message_id, and a queued reaction
\* whose parent is shown after a later append or prepend is then recorded
\* on the parent and no longer queued.
C15_PendingAttachedLater ==
    [][\A i \in 1..Len(inflight) :
          /\ (DeliverOlder(i) \/ DeliverNewer(i) \/ DeliverPoll(i))
               => \A p \in DOMAIN pending_tapbacks :
                     FindLi(messages_list', p) # 0
                        => /\ SeqSet(pending_tapbacks[p]) \subseteq TapsOn(messages_list', p)
                           /\ p \notin DOMAIN pending_tapbacks'
          /\ (DeliverOlder(i) \/ DeliverNewer(i) \/ DeliverPoll(i))
               => \A t \in SeqSet(TapbacksOf(inflight[i].data.messages)) :
                     FindLi(messages_list', ReplyTo(t)) = 0
                        => t \in PendingFor(pending_tapbacks', ReplyTo(t))]_vars

\* row 4, a reaction to row 1, came in while row 1 was not shown and was queued;
\* the prepend of the page with row 1 has recorded it on row 1
C15_Witness ==
    /\ last_event = "older"
    /\ WindowIds = <<1, 2, 3>>
    /\ messages_list[1].taps = <<4>>
    /\ pending_tapbacks = <<>>

\* C16: after every merge (render, append, prepend, jump-to-newest) no key
\* of the queue is the message_id of an item of the window.
C16_NoPendingKeyInWindow ==
    [][\A i \in 1..Len(inflight) :
          Merge(i) => \A p \in DOMAIN pending_tapbacks' : FindLi(messages_list', p) = 0]_vars

\* a poll has queued row 4 under row 1, which the window does not show
C16_Witness ==
    /\ last_event = "poll"
    /\ WindowIds = <<2, 3>>
    /\ DOMAIN pending_tapbacks = {Mid(1)}

\* the places that hold reaction t: positions in the reactions recorded on the
\* items of the window, and positions in the queue
PlacesOn(doc, t) ==
    UNION {{<<i, j>> : j \in {k \in 1..Len(doc[i].taps) : doc[i].taps[k] = t}} :
             i \in 1..Len(doc)}

PlacesPending(pend, t) ==
    UNION {{<<p, j>> : j \in {k \in 1..Len(pend[p]) : pend[p][k] = t}} : p \in DOMAIN pend}

Places(doc, pend, t) == Cardinality(PlacesOn(doc, t)) + Cardinality(PlacesPending(pend, t))

\* the entries of the page(s) that response r merges
MergedPage(r) ==
    IF r.kind = "resume_newer" THEN r.context_data.messages \o r.data.messages
    ELSE r.data.messages

\* C17: after every merge no item of the window is a reaction, and every
\* reaction of the merged page is in exactly one place: recorded on its
\* parent in the window, or queued.
C17_ReactionInOnePlace ==
    [][\A i \in 1..Len(inflight) :
          Merge(i)
             => /\ \A k \in 1..Len(messages_list') : ~is_tapback(messages_list'[k].id)
                /\ \A t \in SeqSet(TapbacksOf(MergedPage(inflight[i]))) :
                      Places(messages_list', pending_tapbacks', t) = 1]_vars


\* C19: a view change (to the dashboard, to a detail view, to a conversation)
\* and a click on jump-to-newest each discard the queue: no reaction that was
\* queued before the step is queued after it.
C19_QueueDiscarded ==
    [][(ShowHome \/ ShowDetail \/ ShowChannel \/ JumpClick)
          => \A p \in DOMAIN pending_tapbacks :
                \A t \in SeqSet(pending_tapbacks[p]) :
                   PlacesPending(pending_tapbacks', t) = {}]_vars

(***************************************************************************)
(* Properties of the merges: read marks, scroll offset, failures.          *)
(***************************************************************************)
\* C22: the items a load-older prepends are marked read by the prepend; the
\* items a load-newer or a poll appends are not marked read by the append.
C22_PrependMarksRead ==
    [][\A i \in 1..Len(inflight) :
          LET normal == NormalOf(inflight[i].data.messages)
              old == Len(messages_list)
          IN /\ (DeliverOlder(i) /\ inflight[i].in_doc)
                   => /\ Len(messages_list') = old + Len(normal)
                      /\ \A k \in 1..Len(normal) :
                            /\ messages_list'[k].id = normal[k]
                            /\ messages_list'[k].read
             /\ ((DeliverNewer(i) \/ DeliverPoll(i)) /\ inflight[i].in_doc)
                   => /\ Len(messages_list') = old + Len(normal)
                      /\ \A k \in 1..Len(normal) :
                            /\ messages_list'[old + k].id = normal[k]
                            /\ ~messages_list'[old + k].read]_vars

\* row 1 has been prepended, read, to a window whose last item, appended by
\* the resume, is unread
C22_Witness ==
    /\ last_event = "older"
    /\ WindowIds = <<1, 2, 3, 5>>
    /\ WindowRead = <<TRUE, TRUE, TRUE, FALSE>>

\* C23: a poll asks for the entries after the newest cursor and gets only
\* such entries; its response leaves the stored position, the read marks of
\* the items, scrollTop, the oldest cursor and has_more_older as they are,
\* and the items it appends are unread.
C23_PollFrame ==
    [][/\ PollTick
          => LET r == inflight'[Len(inflight')] IN
             /\ r.kind = "poll"
             /\ r.q = After(messages_newest.rx)
             /\ \A k \in 1..Len(r.data.messages) :
                   KeyLess(messages_newest, KeyOf(r.data.messages[k]))
       /\ \A i \in 1..Len(inflight) :
             DeliverPoll(i)
                => /\ last_read_store' = last_read_store
                   /\ scrollTop' = scrollTop
                   /\ messages_oldest' = messages_oldest
                   /\ messages_has_more_older' = messages_has_more_older
                   /\ Len(messages_list') >= Len(messages_list)
                   /\ \A k \in 1..Len(messages_list) :
                         /\ messages_list'[k].id = messages_list[k].id
                         /\ messages_list'[k].read = messages_list[k].read
                   /\ \A k \in (Len(messages_list) + 1)..Len(messages_list') :
                         ~messages_list'[k].read]_vars

\* rows 2 and 3 came in after the fresh load of row 1; a poll has appended
\* them unread and the stored position is still row 1
C23_Witness ==
    /\ last_event = "poll"
    /\ WindowIds = <<1, 2, 3>>
    /\ WindowRead = <<TRUE, FALSE, FALSE>>
    /\ last_read_store = set_last_read(1)
    /\ messages_oldest = KeyOf(1)

\* the first item whose bottom edge is below the top of the container
TopVisible(ul, top) ==
    LET below == {k \in 1..Len(ul) : ContentHeight(SubSeq(ul, 1, k)) > top} IN
    IF below = {} THEN 0 ELSE CHOOSE k \in below : \A j \in below : k <= j

\* C24: after a load-older has prepended at least one item to a list that
\* filled its viewport, the item that was the first visible one before is at
\* the same offset from the top of the container.
C24_PrependKeepsOffset ==
    [][\A i \in 1..Len(inflight) :
          LET K == Len(NormalOf(inflight[i].data.messages))
              anchor == TopVisible(messages_list, scrollTop)
          IN (/\ DeliverOlder(i)
              /\ inflight[i].in_doc
              /\ K >= 1
              /\ anchor > 0
              /\ ContentHeight(messages_list) >= ViewportRows)
                => /\ messages_list'[anchor + K].id = messages_list[anchor].id
                   /\ ItemTop(messages_list', scrollTop', anchor + K)
                         = ItemTop(messages_list, scrollTop, anchor)]_vars

\* what a failed page fetch has to leave as it was: the window, the cursors,
\* the two flags, the queue and the stored position
PageStateKept ==
    /\ messages_list' = messages_list
    /\ messages_oldest' = messages_oldest
    /\ messages_newest' = messages_newest
    /\ messages_has_more_older' = messages_has_more_older
    /\ messages_has_more_newer' = messages_has_more_newer
    /\ pending_tapbacks' = pending_tapbacks
    /\ last_read_store' = last_read_store

\* C25: a poll or a jump-to-newest changes nothing of that state before its
\* fetch returns, and the failure of the fetch of a load-older, load-newer,
\* poll or jump-to-newest changes nothing of it and, for the three that take
\* the loading guard, releases the guard.
C25_FailedFetchLeavesState ==
    [][/\ (PollTick \/ JumpClick) => PageStateKept
       /\ \A i \in 1..Len(inflight) :
             FailPage(i)
                => /\ PageStateKept
                   /\ inflight[i].kind # "poll" => ~messages_is_loading']_vars

(***************************************************************************)
(* Properties of the timers.                                               *)
(***************************************************************************)
\* C28: the callback of the scroll-settle timer runs only while the
\* conversation view in which the timer was armed is still shown: it never
\* runs, and writes messages_scroll_paused, after the user has left the view
\* and its list is gone.
C28_NoTimerAfterTeardown ==
    [][ScrollSettle => (current_view = "channel" \/ main_content = "list")]_vars

(***************************************************************************)
(* Properties of the responses that arrive for a list no longer shown.     *)
(***************************************************************************)
\* C27: the response to a load-older, load-newer, poll or jump-to-newest
\* that was issued for a list which has since been replaced by the list of a
\* later session changes neither the cursors, the two flags, the loading
\* guard, the queue nor the window of that session.
C27_StaleResponseIgnored ==
    [][\A i \in 1..Len(inflight) :
          (/\ DeliverOlder(i) \/ DeliverNewer(i) \/ DeliverPoll(i) \/ DeliverJump(i)
           /\ ~inflight[i].in_doc
           /\ current_view = "channel"
           /\ main_content = "list")
             => /\ messages_oldest' = messages_oldest
                /\ messages_newest' = messages_newest
                /\ messages_has_more_older' = messages_has_more_older
                /\ messages_has_more_newer' = messages_has_more_newer
                /\ messages_is_loading' = messages_is_loading
                /\ pending_tapbacks' = pending_tapbacks
                /\ messages_list' = messages_list]_vars

(***************************************************************************)
(* Properties of the stored read position.                                 *)
(***************************************************************************)
\* the order of stored records, (rx_time, message_id); no record is least
PosLeq(a, b) ==
    \/ a = NoPos
    \/ /\ b # NoPos
       /\ \/ a.rx_time < b.rx_time
          \/ (a.rx_time = b.rx_time /\ a.message_id <= b.message_id)

\* the last item whose top edge is above the bottom of the viewport, 0 if none
LastVisible(top) == VisiblePrefix(messages_list, top, 1)

\* C12: the commit of the viewport, on a scroll event or on leaving the
\* view, never lowers the stored (rx_time, message_id), and when the last
\* visible item is not after the stored record the record is left as it is.
C12_CommitNeverDecreases ==
    [][/\ \A top \in 0..MaxScroll(messages_list) :
            Scroll(top)
               => /\ PosLeq(last_read_store, last_read_store')
                  /\ (/\ last_read_store # NoPos
                      /\ LastVisible(top) > 0
                      /\ PosLeq(set_last_read(messages_list[LastVisible(top)].id),
                                last_read_store))
                        => last_read_store' = last_read_store
       /\ (ShowHome \/ ShowDetail \/ ShowChannel)
            => /\ PosLeq(last_read_store, last_read_store')
               /\ (/\ last_read_store # NoPos
                   /\ LastVisible(scrollTop) > 0
                   /\ PosLeq(set_last_read(messages_list[LastVisible(scrollTop)].id),
                             last_read_store))
                     => last_read_store' = last_read_store]_vars

\* a scroll to the top of a window whose last visible item is before the
\* stored record
C12_Witness ==
    /\ last_event = "scroll"
    /\ scrollTop = 0
    /\ LastVisible(0) > 0
    /\ LastVisible(0) < Len(messages_list)
    /\ last_read_store # NoPos
    /\ last_read_store # set_last_read(messages_list[LastVisible(0)].id)
    /\ PosLeq(set_last_read(messages_list[LastVisible(0)].id), last_read_store)

\* C13: no step other than the completion of a jump-to-newest moves the
\* stored read position to an earlier one.
C13_PositionOnlyForward ==
    [][(\A i \in 1..Len(inflight) : ~DeliverJump(i))
          => PosLeq(last_read_store, last_read_store')]_vars

RECURSIVE Represented(_)
Represented(pills) ==
    IF pills = <<>> THEN 0 ELSE Head(pills).count + Represented(Tail(pills))

\* C18: attaching a reaction whose message_id is already recorded for its
\* parent leaves the parent's recorded reactions, and so the badges rendered
\* from them, unchanged, whatever the size of the collection.
C18_AttachIdempotent ==
    [][\A e \in 0..2 : \A k \in 1..BurstPool :
          (/\ BurstTapback(e, k) \in SeqSet(messages_list[1].taps)
           /\ AttachTapback(BurstTapback(e, k)))
              => messages_list' = messages_list]_vars

\* C20: every message shows at most 10 badges, and the reactions its badges
\* stand for plus the N of its "+N more" indicator are all its reactions.
C20_BadgesAndOverflow ==
    \A i \in 1..Len(messages_list) :
        LET total(shown) ==
                /\ Len(shown.pills) <= max_pills
                /\ Represented(shown.pills) + shown.overflow = Len(messages_list[i].taps)
        IN total(render_tapbacks(messages_list[i].taps))

\* the texts of the reactions, trimmed
Emojis == {<<"E1">>, <<"E2">>, <<"E3">>}

\* 6 reactions with one text and 2 reactions with two other texts
SixOneOne(taps) ==
    /\ Len(taps) = 8
    /\ \E e \in Emojis :
          /\ Len(GroupOf(taps, e)) = 6
          /\ \A f \in Emojis \ {e} : Len(GroupOf(taps, f)) = 1

Grouped(pills) == {i \in 1..Len(pills) : pills[i].grouped}

\* C21: 6 reactions with identical text and 2 reactions with two other texts
\* on one parent render as 3 badges, one collapsed badge with count 6 and two
\* individual badges, with no "+N more" indicator; the badges stand for 8
\* reactions.
C21_SixOneOneRendering ==
    \A i \in 1..Len(messages_list) :
        LET three(shown) ==
                /\ Len(shown.pills) = 3
                /\ shown.overflow = 0
                /\ Cardinality(Grouped(shown.pills)) = 1
                /\ \A k \in Grouped(shown.pills) : shown.pills[k].count = 6
                /\ Represented(shown.pills) + shown.overflow = 8
        IN SixOneOne(messages_list[i].taps) => three(render_tapbacks(messages_list[i].taps))

\* the statement with 2 badges and a "+1 more" indicator
C21_TwoBadgesAndOneMore ==
    \A i \in 1..Len(messages_list) :
        LET two(shown) ==
                /\ Len(shown.pills) = 2
                /\ shown.overflow = 1
                /\ Cardinality(Grouped(shown.pills)) = 1
                /\ Represented(shown.pills) + shown.overflow = 8
        IN SixOneOne(messages_list[i].taps) => two(render_tapbacks(messages_list[i].taps))

\* the parent held 6 reactions of the first text and one of the second, and
\* the first reaction of the third text has been attached
C21_Witness ==
    /\ last_event = Event("attach", Null)
    /\ messages_list[1].taps = Recorded(6, 1, 0) \o <<BurstTapback(2, 1)>>
    /\ SixOneOne(messages_list[1].taps)

(***************************************************************************)
(* Properties of the node search                                           *)
(***************************************************************************)

\* C26: a search response is applied to the node list only when its request
\* id is the latest one issued at that moment, and the list never goes from
\* the result of a later request to the result of an earlier one.
C26_OnlyLatestSearchApplied ==
    [][/\ \A i \in 1..Len(search_inflight) :
              SearchBody(i) => search_inflight[i].request_id = nodes_search_request_id
       /\ (nodes_list # Null /\ nodes_list' # Null)
              => nodes_list'.request_id >= nodes_list.request_id]_vars

(***************************************************************************)
(* Properties of the fast poll                                             *)
(***************************************************************************)

\* C29: the connection error is shown only while at least max_poll_failures
\* fast polls have failed since the last success; a failed poll raises it
\* only when it is at least the max_poll_failures-th in a row, and a
\* successful poll sets the count to 0 and removes it.
C29_ErrorAfterThreeFailures ==
    [][/\ connection_error' => poll_failure_count' >= 3
       /\ \A i \in 1..Len(stats_inflight) :
              /\ FailStats(i) =>
                    /\ poll_failure_count' = poll_failure_count + 1
                    /\ (connection_error' /\ ~connection_error)
                          => poll_failure_count' >= 3
              /\ DeliverStats(i) =>
                    /\ poll_failure_count' = 0
                    /\ ~connection_error']_vars

C29_Witness ==
    /\ last_event = "stats_failed"
    /\ poll_failure_count = 3
    /\ connection_error

\* C30: a stats response forces a reload exactly when it carries a local
\* node, values have been recorded, and its node_id or first_seen differs
\* from them; a response arriving before any value is recorded only records
\* its values; a response without a local node leaves the recorded values.
C30_ReloadOnMismatch ==
    [][\A i \in 1..Len(stats_inflight) :
          DeliverStats(i) =>
             LET node == stats_inflight[i].local_node IN
             /\ (last_event' = "reload")
                   <=> /\ node # Null
                       /\ known_local_node_id # NoValue
                       /\ \/ node.node_id # known_local_node_id
                          \/ node.first_seen # known_first_seen
             /\ (node # Null /\ known_local_node_id = NoValue)
                   => /\ known_local_node_id' = node.node_id
                      /\ known_first_seen' = node.first_seen
             /\ node = Null
                   => UNCHANGED <<known_local_node_id, known_first_seen>>]_vars

C30_Witness ==
    /\ last_event = "reload"
    /\ known_local_node_id = NoValue
    /\ local_node # Null
    /\ local_node.node_id = "!a"
    /\ local_node.first_seen = "t2"

(***************************************************************************)
(* Properties of the loading guard                                         *)
(***************************************************************************)
PaginationRequests(reqs) ==
    {i \in 1..Len(reqs) : reqs[i].kind \in {"older", "newer", "jump"}}

\* C32: while messages_is_loading is set no step issues a fetch of
\* load-older, load-newer or jump-to-newest, and a scroll event (which calls
\* load_older_messages and load_newer_messages) leaves the entries of the
\* window, the cursors, the flags, the pending reactions and the guard as
\* they are.
C32_GuardedCallIsNoOp ==
    [][messages_is_loading =>
          /\ Cardinality(PaginationRequests(inflight'))
                <= Cardinality(PaginationRequests(inflight))
          /\ last_event' = "scroll" =>
                /\ inflight' = inflight
                /\ WindowIds' = WindowIds
                /\ Cursors' = Cursors
                /\ pending_tapbacks' = pending_tapbacks
                /\ messages_is_loading']_vars

C32_Witness ==
    /\ last_event = "scroll"
    /\ messages_is_loading
    /\ scrollTop < NearTopRows
    /\ messages_has_more_older
    /\ messages_oldest # Null
    /\ Len(inflight) = 1
    /\ inflight[1].kind = "jump"

(***************************************************************************)
(* Properties of the window against the server's log                      *)
(***************************************************************************)
\* the primary entries the server holds with a key from oldest to newest
BetweenCursors ==
    {id \in Stored : /\ ~is_tapback(id)
                     /\ KeyLeq(messages_oldest, KeyOf(id))
                     /\ KeyLeq(KeyOf(id), messages_newest)}

\* C36: when the list is shown and no fetch is outstanding, every primary
\* entry of the server's log whose key lies between the oldest and the
\* newest cursor is an item of the window.
C36_NoGaps ==
    (main_content = "list" /\ current_view = "channel" /\ inflight = <<>> /\ BothDefined)
        => BetweenCursors \subseteq SeqSet(WindowIds)

(***************************************************************************)
(* Properties of repeated paging on a log that does not grow               *)
(***************************************************************************)
\* C37: a load-older (load-newer) response with entries leaves the oldest
\* (newest) cursor strictly beyond the boundary it was asked with, and
\* strictly beyond the cursor of the moment when that is still the boundary;
\* an empty page sets has_more of its direction to false; a request of a
\* direction is issued only while has_more of that direction is true.
C37_PagingTerminates ==
    [][/\ \A i \in 1..Len(inflight) :
             /\ DeliverOlder(i) =>
                   /\ inflight[i].data.messages # <<>> =>
                         /\ messages_oldest'.rx < inflight[i].q.rx
                         /\ SameSession(inflight[i])
                               => KeyLess(messages_oldest', messages_oldest)
                   /\ inflight[i].data.messages = <<>> => ~messages_has_more_older'
             /\ DeliverNewer(i) =>
                   /\ inflight[i].data.messages # <<>> =>
                         /\ messages_newest'.rx > inflight[i].q.rx
                         /\ SameSession(inflight[i])
                               => KeyLess(messages_newest, messages_newest')
                   /\ inflight[i].data.messages = <<>> => ~messages_has_more_newer'
       /\ Len(inflight') > Len(inflight) =>
             /\ inflight'[Len(inflight')].kind = "older" => messages_has_more_older
             /\ inflight'[Len(inflight')].kind = "newer" => messages_has_more_newer]_vars

\* load-older has been repeated until the first row of the log
C37_Witness ==
    /\ last_event = "older"
    /\ WindowIds = <<1, 3, 7>>
    /\ messages_oldest = KeyOf(1)
    /\ ~messages_has_more_older
    /\ inflight = <<>>

\* C38: the guard is set only while a load-older, load-newer or
\* jump-to-newest request is outstanding, and it is set as long as such a
\* request issued for the list now shown is outstanding.
C38_GuardWhileOutstanding ==
    /\ messages_is_loading => PaginationRequests(inflight) # {}
    /\ (\E i \in PaginationRequests(inflight) : inflight[i].in_doc) => messages_is_loading

(***************************************************************************)
(* Properties of the "Jump to newest" button                               *)
(***************************************************************************)
\* C39: whenever the message list is shown, the button is visible exactly
\* when messages_has_more_newer is true (so every step that changes the flag
\* while the list is shown has set the button from the new flag).
C39_JumpButtonFollowsFlag ==
    main_content = "list" => (jump_hidden <=> ~messages_has_more_newer)

C39_Witness ==
    /\ last_event = "poll"
    /\ main_content = "list"
    /\ messages_has_more_newer
    /\ ~jump_hidden
    /\ inflight = <<>>

(***************************************************************************)
(* Properties of the node list under a search                              *)
(***************************************************************************)
\* the list was rebuilt by the search for the query now in the input
ShowsCurrentSearch ==
    IF nodes_list = Null THEN FALSE
    ELSE nodes_list.request_id > 0 /\ nodes_list.query = nodes_search_query

\* C40: while the search query is not empty and the node list shows the
\* result of the search for it, the response of a node-list poll or of an
\* infinite-scroll request that was started under another query (or none)
\* neither rebuilds the node list nor appends to it.
C40_SearchResultKept ==
    [][\A i \in 1..Len(nodes_inflight) :
          ((DeliverNodesPoll(i) \/ DeliverMoreNodes(i))
              /\ nodes_search_query # ""
              /\ ShowsCurrentSearch
              /\ nodes_inflight[i].query # nodes_search_query)
             => UNCHANGED <<nodes_list, nodes_appended>>]_vars

(***************************************************************************)
(* Properties of the saved scroll offset                                   *)
(***************************************************************************)
\* C33: a saved scroll offset is single-use: the resume that restores it
\* belongs to the first activation made after the offset was saved, never to
\* a later one.
C33_SavedOffsetSingleUse ==
    [][\A i \in 1..Len(inflight) :
          (DeliverResumeNewer(i) /\ saved_messages_scroll_top # Null)
             => saved_messages_scroll_top.activations <= 1]_vars

(***************************************************************************)
(* Properties of the stored item                                           *)
(***************************************************************************)
\* the item holds a record with a numeric message_id and a numeric rx_time
WellFormed(item) ==
    /\ item.raw = "json"
    /\ item.value.type = "object"
    /\ item.value.message_id.t = "number"
    /\ item.value.rx_time.t = "number"

\* C31: an item that is missing, cannot be parsed or lacks a numeric
\* message_id or rx_time is read back as no stored position, and the first
\* activation then fetches the newest page (the fresh load) and shows the
\* loading text, not an error.
C31_MalformedItemIsNoPosition ==
    [][(last_event = "init" /\ ShowChannel /\ ~WellFormed(stored_item))
          => /\ get_last_read(stored_item) = NoPos
             /\ inflight'[Len(inflight')].kind = "fresh"
             /\ main_content' = "loading"]_vars

C31_Witness ==
    /\ last_event = "show_channel"
    /\ stored_item = Item("json", Json("object", TRUE, Number(Mid(1)), String))
    /\ main_content = "loading"
    /\ Len(inflight) = 1
    /\ inflight[1].kind = "fresh"

(***************************************************************************)
(* Properties of two conversations                                         *)
(***************************************************************************)
\* the entry belongs to the conversation of the current view
InCurrentConversation(id) ==
    IF current_view = "direct_messages" THEN id \in DmStored ELSE id \notin DmStored

\* C34: once every response has arrived and a list is shown, the window, the
\* cursors and the has_more flags of a conversation view are those of the
\* conversation activated last: the window and the cursors name its entries only,
\* and the direct messages, which fit on one page, have no more entries on
\* either side.
C34_LatestActivationShown ==
    (inflight = <<>> /\ current_view \in {"channel", "direct_messages"}
        /\ main_content = "list")
    => /\ \A k \in 1..Len(WindowIds) : InCurrentConversation(WindowIds[k])
       /\ messages_oldest # Null => InCurrentConversation(messages_oldest.id)
       /\ messages_newest # Null => InCurrentConversation(messages_newest.id)
       /\ current_view = "direct_messages" =>
             ~messages_has_more_older /\ ~messages_has_more_newer

\* the record names an entry of the log
NamesEntryOf(pos, log) == \E id \in log : pos = set_last_read(id)

\* C35: the position stored under the key of a conversation names an entry
\* of that conversation.
C35_PositionOfOwnConversation ==
    /\ last_read_store # NoPos => NamesEntryOf(last_read_store, 1..log_len)
    /\ last_read_dm # NoPos => NamesEntryOf(last_read_dm, DmStored)

====
